---- MODULE Spec2Model ----
(***************************************************************************)
(* Model of the NYS District Dashboard client (site/app.js, the version    *)
(* with BOCES clustering: ChartRenderer at lines 634-1130, DashboardApp at *)
(* lines 1133-1440).                                                       *)
(*                                                                         *)
(* Two specifications share the module:                                    *)
(*   Spec        the DashboardApp controller: init, the DOM event handlers *)
(*               and the asynchronous loads, with fetch responses arriving *)
(*               in any order;                                             *)
(*   SpecRender  the ChartRenderer: renderLineChart / renderBarChart       *)
(*               applied to chart specifications drawn from bounded sets.  *)
(***************************************************************************)
EXTENDS Integers, Sequences, FiniteSets, TLC

VARIABLES
    \* ---- DashboardApp fields (constructor, app.js 1134-1141)
    districts,          \* this.districts
    boces,              \* this.boces
    currentBoces,       \* this.currentBoces
    clusterView,        \* this.clusterView
    \* ---- DOM elements the controller reads and writes
    districtSelect,     \* #districtSelect: [populated, options, value]
    bocesFilter,        \* #bocesFilter: [options, value]
    showClusterBtn,     \* #showClusterBtn: [disabled, textContent]
    showDistrictBtn,    \* #showDistrictBtn: style.display
    charts,             \* #charts: content of the chart area
    sourcesList,        \* #sourcesList: content of the provenance list
    \* ---- control state
    pc,                 \* position of init()
    listeners,          \* TRUE once setupEventListeners has run
    pending,            \* spec fetches in flight
    \* ---- history (not program state)
    nAct,               \* number of user actions handled so far
    indexOutcome,       \* how the fetch of spec/index.json ended
    sourcesOutcome,     \* how loadSources ended
    lastLoad,           \* the spec load that completed last: [id, ok, spec]
    fetches,            \* fetch() calls issued so far: [index, sources, spec]
    \* ---- ChartRenderer under SpecRender
    svg,                \* children of the <svg> element rendered into
    call                \* the last renderer call: [fn, spec, outcome, xKind, before]

appVars == <<districts, boces, currentBoces, clusterView, districtSelect,
             bocesFilter, showClusterBtn, showDistrictBtn, charts,
             sourcesList, pc, listeners, pending, nAct, indexOutcome,
             sourcesOutcome, lastLoad, fetches>>
renderVars == <<svg, call>>
vars == <<districts, boces, currentBoces, clusterView, districtSelect,
          bocesFilter, showClusterBtn, showDistrictBtn, charts,
          sourcesList, pc, listeners, pending, nAct, indexOutcome,
          sourcesOutcome, lastLoad, fetches, svg, call>>

(***************************************************************************)
(* Bounds of the model.                                                    *)
(***************************************************************************)
\* user actions (selection changes and button clicks) in one behaviour
MaxActions == 3
\* rows in the data table of a chart specification
MaxRows == 2
\* width xMax - xMin of the integer x domains of the tick loop
MaxSpan == 12
\* series (legend entries) of a chart with a legend
MaxSeries == 4
\* entries in config/annotations.json
MaxAnnotations == 3
\* periods (years) the rows of a BOCES cluster cover
MaxPeriods == 2
\* entries in data/sources.json
MaxSources == 12

(***************************************************************************)
(* Optional values: a JSON key that may be absent.                         *)
(***************************************************************************)
Some(x) == [has |-> TRUE, val |-> x]
None(dflt) == [has |-> FALSE, val |-> dflt]

(***************************************************************************)
(* JavaScript values that occur in a data row.                             *)
(* A string is a sequence of one-character strings.                        *)
(***************************************************************************)
Num(n)  == [t |-> "number", n |-> n, s |-> <<>>]
Str(s)  == [t |-> "string", n |-> 0, s |-> s]
NaN     == [t |-> "NaN", n |-> 0, s |-> <<>>]
PosInf  == [t |-> "Infinity", n |-> 0, s |-> <<>>]
Null    == [t |-> "null", n |-> 0, s |-> <<>>]
Undef   == [t |-> "undefined", n |-> 0, s |-> <<>>]
\* the number 2^53 + 2m, m >= 0 (9007199254740992 for m = 0)
BigNum(m) == [t |-> "big", n |-> m, s |-> <<>>]

\* typeof v
TypeOf(v) ==
    CASE v.t \in {"number", "big", "NaN", "Infinity"} -> "number"
      [] v.t = "string" -> "string"
      [] v.t = "null" -> "object"
      [] OTHER -> "undefined"

\* isNaN(v) for a value whose typeof is "number"
IsNaN(v) == v.t = "NaN"

\* Number.isFinite(v)
IsFinite(v) == v.t \in {"number", "big"}

DigitChars == <<"0", "1", "2", "3", "4", "5", "6", "7", "8", "9">>

RECURSIVE NatToString(_)
NatToString(n) ==
    IF n < 10 THEN <<DigitChars[n + 1]>>
    ELSE NatToString(n \div 10) \o <<DigitChars[(n % 10) + 1]>>

\* String(v)
StringOf(v) ==
    CASE v.t = "string" -> v.s
      [] v.t = "number" ->
            IF v.n < 0 THEN <<"-">> \o NatToString(0 - v.n) ELSE NatToString(v.n)
      [] v.t = "big" -> NatToString(90071992) \o NatToString(54740992 + 2 * v.n)
      [] v.t = "NaN" -> <<"N", "a", "N">>
      [] v.t = "Infinity" -> <<"I", "n", "f", "i", "n", "i", "t", "y">>
      [] v.t = "null" -> <<"n", "u", "l", "l">>
      [] OTHER -> <<"u", "n", "d", "e", "f", "i", "n", "e", "d">>

(***************************************************************************)
(* IEEE numbers as the renderer uses them: exact rationals n/d (d > 0, in  *)
(* lowest terms) extended with NaN, Infinity and -Infinity.  The rationals *)
(* of the model are small enough to be doubles.  Big(m) is the double      *)
(* 2^53 + 2m: from 2^53 on the doubles are 2 apart, and a sum that falls   *)
(* between two of them is rounded to the nearer one, to the one with the   *)
(* even significand (even m) when it is half way.  The operators are       *)
(* defined on Big numbers where the result is a number of the model; a     *)
(* CASE without a matching arm is a result outside the model.              *)
(***************************************************************************)
Abs(i) == IF i < 0 THEN 0 - i ELSE i

RECURSIVE Gcd(_, _)
Gcd(a, b) == IF b = 0 THEN a ELSE Gcd(b, a % b)

XNaN  == [k |-> "nan", n |-> 0, d |-> 1]
XInf  == [k |-> "inf", n |-> 0, d |-> 1]
XNInf == [k |-> "ninf", n |-> 0, d |-> 1]

\* the finite number n/d, d # 0
Frac(n, d) ==
    LET g == Gcd(Abs(n), Abs(d))
        sgn == IF d < 0 THEN 0 - 1 ELSE 1
    IN  [k |-> "fin", n |-> sgn * (n \div g), d |-> sgn * (d \div g)]

Fin(n) == [k |-> "fin", n |-> n, d |-> 1]

Big(m) == [k |-> "big", n |-> m, d |-> 1]

\* n/d (n >= 0, d > 0) rounded to the nearest integer, half way to the even one
RoundHalfEven(n, d) ==
    IF 2 * (n % d) < d THEN n \div d
    ELSE IF 2 * (n % d) > d THEN (n \div d) + 1
    ELSE IF (n \div d) % 2 = 0 THEN n \div d ELSE (n \div d) + 1

\* Big(m) + q for a rational q with 2m + q >= 0
BigPlus(m, q) ==
    CASE 2 * m * q.d + q.n >= 0 -> Big(RoundHalfEven(2 * m * q.d + q.n, 2 * q.d))

XSign(a) ==
    CASE a.k = "inf" -> 1
      [] a.k = "ninf" -> 0 - 1
      [] a.k = "nan" -> 0
      [] a.k = "big" -> 1
      [] OTHER -> IF a.n > 0 THEN 1 ELSE IF a.n < 0 THEN 0 - 1 ELSE 0

XOfSign(sg) == IF sg > 0 THEN XInf ELSE XNInf

XNeg(a) ==
    CASE a.k = "inf" -> XNInf
      [] a.k = "ninf" -> XInf
      [] a.k = "nan" -> XNaN
      [] a.k = "fin" -> [k |-> "fin", n |-> 0 - a.n, d |-> a.d]

\* a + b
XAdd(a, b) ==
    CASE a.k = "nan" \/ b.k = "nan" -> XNaN
      [] a.k = "fin" /\ b.k = "fin" -> Frac(a.n * b.d + b.n * a.d, a.d * b.d)
      [] a.k = "big" /\ b.k = "fin" -> BigPlus(a.n, b)
      [] a.k = "fin" /\ b.k = "big" -> BigPlus(b.n, a)
      [] a.k \in {"fin", "big"} /\ b.k \in {"inf", "ninf"} -> b
      [] b.k \in {"fin", "big"} /\ a.k \in {"inf", "ninf"} -> a
      [] a.k \in {"inf", "ninf"} /\ b.k \in {"inf", "ninf"} ->
            IF a.k = b.k THEN a ELSE XNaN

\* a - b
XSub(a, b) ==
    CASE b.k # "big" -> XAdd(a, XNeg(b))
      [] a.k = "big" /\ b.k = "big" -> Fin(2 * (a.n - b.n))
      [] a.k = "nan" /\ b.k = "big" -> XNaN
      [] a.k \in {"inf", "ninf"} /\ b.k = "big" -> a

\* a * b
XMul(a, b) ==
    CASE a.k = "nan" \/ b.k = "nan" -> XNaN
      [] a.k = "fin" /\ b.k = "fin" -> Frac(a.n * b.n, a.d * b.d)
      [] a.k = "big" /\ b = Fin(1) -> a
      [] b.k = "big" /\ a = Fin(1) -> b
      [] a.k # "big" /\ b.k # "big" ->
            IF XSign(a) * XSign(b) = 0 THEN XNaN
            ELSE XOfSign(XSign(a) * XSign(b))

\* a / b  (x/0 is an infinity, 0/0 is NaN)
XDiv(a, b) ==
    CASE a.k = "nan" \/ b.k = "nan" -> XNaN
      [] a.k = "fin" /\ b.k = "fin" ->
            IF b.n # 0 THEN Frac(a.n * b.d, a.d * b.n)
            ELSE IF a.n = 0 THEN XNaN ELSE XOfSign(XSign(a))
      [] a.k = "big" /\ b = Fin(1) -> a
      [] a.k \in {"fin", "big"} /\ b.k \in {"inf", "ninf"} -> Fin(0)
      [] a.k \in {"inf", "ninf"} /\ b.k = "fin" ->
            XOfSign(XSign(a) * (IF b.n < 0 THEN 0 - 1 ELSE 1))
      [] a.k \in {"inf", "ninf"} /\ b.k = "big" -> a
      [] a.k \in {"inf", "ninf"} /\ b.k \in {"inf", "ninf"} -> XNaN

\* a < b, a <= b (false when either is NaN)
XLt(a, b) ==
    CASE a.k = "nan" \/ b.k = "nan" -> FALSE
      [] a.k = "fin" /\ b.k = "fin" -> a.n * b.d < b.n * a.d
      [] a.k = "big" /\ b.k = "big" -> a.n < b.n
      [] a.k = "fin" /\ b.k = "big" -> TRUE
      [] a.k = "big" /\ b.k = "fin" -> FALSE
      [] OTHER -> (a.k = "ninf" /\ b.k # "ninf") \/ (b.k = "inf" /\ a.k # "inf")

XLe(a, b) == a.k # "nan" /\ b.k # "nan" /\ (a = b \/ XLt(a, b))

\* a || b for numbers: a unless a is 0 or NaN
XOr(a, b) == IF a.k = "nan" \/ (a.k = "fin" /\ a.n = 0) THEN b ELSE a

\* ToNumber(v) for the values of a data row; a string is decimal digits or
\* not a number
RECURSIVE DigitsValue(_)
DigitsValue(s) ==
    IF s = <<>> THEN 0
    ELSE 10 * DigitsValue(SubSeq(s, 1, Len(s) - 1))
         + ((CHOOSE i \in 1..10 : DigitChars[i] = s[Len(s)]) - 1)

ToNumber(v) ==
    CASE v.t = "number" -> Fin(v.n)
      [] v.t = "big" -> Big(v.n)
      [] v.t = "Infinity" -> XInf
      [] v.t = "null" -> Fin(0)
      [] v.t = "string" ->
            IF \A i \in 1..Len(v.s) : \E j \in 1..10 : DigitChars[j] = v.s[i]
            THEN Fin(DigitsValue(v.s)) ELSE XNaN
      [] OTHER -> XNaN

\* Math.min(...xs), Math.max(...xs) over a sequence of numbers
RECURSIVE MathMin(_)
MathMin(xs) ==
    IF xs = <<>> THEN XInf
    ELSE LET r == MathMin(Tail(xs))
             h == Head(xs)
         IN  IF h.k = "nan" \/ r.k = "nan" THEN XNaN
             ELSE IF XLt(h, r) THEN h ELSE r

RECURSIVE MathMax(_)
MathMax(xs) ==
    IF xs = <<>> THEN XNInf
    ELSE LET r == MathMax(Tail(xs))
             h == Head(xs)
         IN  IF h.k = "nan" \/ r.k = "nan" THEN XNaN
             ELSE IF XLt(r, h) THEN h ELSE r

\* Math.ceil(a)
XCeil(a) == IF a.k = "fin" THEN Fin(0 - ((0 - a.n) \div a.d)) ELSE a

(***************************************************************************)
(* Strings: UTF-16 code units and String.prototype.localeCompare for the   *)
(* characters "-", "0".."9", "A".."Z", "a".."z".                           *)
(***************************************************************************)
UpperChars == <<"A", "B", "C", "D", "E", "F", "G", "H", "I", "J", "K", "L", "M",
                "N", "O", "P", "Q", "R", "S", "T", "U", "V", "W", "X", "Y", "Z">>
LowerChars == <<"a", "b", "c", "d", "e", "f", "g", "h", "i", "j", "k", "l", "m",
                "n", "o", "p", "q", "r", "s", "t", "u", "v", "w", "x", "y", "z">>

IsUpper(c) == \E i \in 1..26 : UpperChars[i] = c
IsLower(c) == \E i \in 1..26 : LowerChars[i] = c
IsDigit(c) == \E i \in 1..10 : DigitChars[i] = c

CodeUnit(c) ==
    CASE IsUpper(c) -> 64 + (CHOOSE i \in 1..26 : UpperChars[i] = c)
      [] IsLower(c) -> 96 + (CHOOSE i \in 1..26 : LowerChars[i] = c)
      [] IsDigit(c) -> 47 + (CHOOSE i \in 1..10 : DigitChars[i] = c)
      [] OTHER -> 45

\* -1, 0 or 1: lexicographic comparison of two sequences of integers
RECURSIVE SeqCmp(_, _)
SeqCmp(a, b) ==
    CASE a = <<>> /\ b = <<>> -> 0
      [] a = <<>> -> 0 - 1
      [] b = <<>> -> 1
      [] OTHER -> IF Head(a) < Head(b) THEN 0 - 1
                  ELSE IF Head(a) > Head(b) THEN 1
                  ELSE SeqCmp(Tail(a), Tail(b))

\* Comparison by UTF-16 code units (the order of < on strings)
OrdinalCompare(s, t) ==
    SeqCmp([i \in 1..Len(s) |-> CodeUnit(s[i])], [i \in 1..Len(t) |-> CodeUnit(t[i])])

\* s.localeCompare(t) under the default (CLDR root) collation of the
\* browsers' Intl implementation: letters are compared without regard to
\* case first; strings equal up to case are ordered lower case first.
LocaleCompare(s, t) ==
    LET prim(u) == [i \in 1..Len(u) |->
                        IF IsUpper(u[i]) THEN CodeUnit(u[i]) + 32 ELSE CodeUnit(u[i])]
        tert(u) == [i \in 1..Len(u) |-> IF IsUpper(u[i]) THEN 1 ELSE 0]
        p == SeqCmp(prim(s), prim(t))
    IN  IF p # 0 THEN p ELSE SeqCmp(tert(s), tert(t))

(***************************************************************************)
(* Arrays                                                                  *)
(***************************************************************************)
Range(f) == {f[i] : i \in DOMAIN f}

\* [...new Set(xs)]: the distinct values in order of first occurrence
RECURSIVE SetOf(_)
SetOf(xs) ==
    IF xs = <<>> THEN <<>>
    ELSE LET r == SetOf(SubSeq(xs, 1, Len(xs) - 1))
             v == xs[Len(xs)]
         IN  IF v \in Range(r) THEN r ELSE Append(r, v)

\* xs.sort(cmp) for a consistent comparator: Array.prototype.sort is stable.
\* cmp[<<a, b>>] is the comparator's result on the elements a and b.
RECURSIVE SortBy(_, _)
SortBy(xs, cmp) ==
    IF xs = <<>> THEN <<>>
    ELSE LET r == SortBy(SubSeq(xs, 1, Len(xs) - 1), cmp)
             v == xs[Len(xs)]
         IN  SelectSeq(r, LAMBDA e : cmp[<<e, v>>] <= 0) \o <<v>>
             \o SelectSeq(r, LAMBDA e : cmp[<<e, v>>] > 0)

\* xs.indexOf(v): strict equality, -1 when absent
IndexOf(xs, v) ==
    IF \E i \in 1..Len(xs) : xs[i] = v
    THEN (CHOOSE i \in 1..Len(xs) : xs[i] = v /\ \A j \in 1..(i - 1) : xs[j] # v) - 1
    ELSE 0 - 1

\* d[field] for a row d
Get(d, field) == IF field \in DOMAIN d THEN d[field] ELSE Undef

(***************************************************************************)
(* ChartRenderer: geometry (constructor, app.js 635-639)                   *)
(***************************************************************************)
marginTop == 40
marginRight == 80
marginBottom == 60
marginLeft == 60
width == 800
height == 400

chartWidth == width - marginLeft - marginRight
chartHeight == height - marginTop - marginBottom

(***************************************************************************)
(* SVG elements.  Every element carries the attributes the renderer sets:  *)
(* x, y stand for x/x1/cx and y/y1/cy; x2, y2 for x2/width and y2/height;  *)
(* pts is the vertex list of a path's d attribute.                         *)
(***************************************************************************)
NoText == [fmt |-> "none", num |-> XNaN, str |-> <<>>]
\* textContent = a string
TextStr(s) == [fmt |-> "string", num |-> XNaN, str |-> s]
\* textContent = a number x
TextNum(x) == [fmt |-> "number", num |-> x, str |-> <<>>]
\* textContent = x.toFixed(digits)
TextFixed(digits, x) ==
    [fmt |-> IF digits = 0 THEN "toFixed0" ELSE "toFixed1", num |-> x, str |-> <<>>]

createSVGElement(type, class, anchor, x, y, x2, y2, text, pts) ==
    [tag |-> type, class |-> class, anchor |-> anchor, x |-> x, y |-> y,
     x2 |-> x2, y2 |-> y2, text |-> text, pts |-> pts]

LineEl(class, x1, y1, x2, y2) ==
    createSVGElement("line", class, "", x1, y1, x2, y2, NoText, <<>>)
TextEl(class, anchor, x, y, text) ==
    createSVGElement("text", class, anchor, x, y, Fin(0), Fin(0), text, <<>>)

NoDataMessage == <<"No data available">>

\* svg.innerHTML = ''
ClearSvg(svgIn) == <<>>

\* variant of renderNoData without svg.innerHTML = ''
renderNoDataAppending(svgIn) ==
    Append(svgIn,
           TextEl("axis-text", "middle", Frac(width, 2), Frac(height, 2),
                  TextStr(NoDataMessage)))

\* renderNoData(svg, title)
renderNoData(svgIn) ==
    Append(ClearSvg(svgIn),
           TextEl("axis-text", "middle", Frac(width, 2), Frac(height, 2),
                  TextStr(NoDataMessage)))

\* the six horizontal grid lines (renderLineChart 691-702, renderBarChart 794-805)
gridLines ==
    [j \in 1..6 |->
        LET y == XAdd(Fin(marginTop), XMul(XDiv(Fin(chartHeight), Fin(5)), Fin(j - 1)))
        IN  LineEl("grid-line", Fin(marginLeft), y, Fin(width - marginRight), y)]

\* axis lines and axis labels, common to drawAxes, drawCategoryAxes, drawBarAxes
axisFrame(xAxis, yAxis) ==
    << LineEl("axis-line", Fin(marginLeft), Fin(height - marginBottom),
              Fin(width - marginRight), Fin(height - marginBottom)),
       LineEl("axis-line", Fin(marginLeft), Fin(marginTop),
              Fin(marginLeft), Fin(height - marginBottom)),
       TextEl("axis-label", "middle", XAdd(Fin(marginLeft), Frac(chartWidth, 2)),
              Fin(height - 10), TextStr(xAxis.label)),
       TextEl("axis-label", "middle", Fin(15), XAdd(Fin(marginTop), Frac(chartHeight, 2)),
              TextStr(yAxis.label)) >>

\* the six y tick labels; digits is the argument of toFixed
yTicks(yMin, yMax, digits) ==
    [j \in 1..6 |->
        LET i == j - 1
            value == XAdd(yMin, XDiv(XMul(XSub(yMax, yMin), Fin(i)), Fin(5)))
            yPos == XSub(Fin(height - marginBottom), XDiv(XMul(Fin(chartHeight), Fin(i)), Fin(5)))
        IN  TextEl("axis-text", "end", Fin(marginLeft - 10), XAdd(yPos, Fin(5)),
                   TextFixed(digits, value))]

\* the x tick loop of drawAxes: for (let x = xMin; x <= xMax; x += xStep).
\* hang is TRUE when the loop condition holds and x += xStep leaves x
\* unchanged, so that the loop never exits.
xTick(x, xMin, xRange) ==
    TextEl("axis-text", "middle",
           XAdd(Fin(marginLeft), XMul(XDiv(XSub(x, xMin), xRange), Fin(chartWidth))),
           Fin(height - marginBottom + 20), TextNum(x))

Prepend(e, r) == [els |-> <<e>> \o r.els, hang |-> r.hang]

RECURSIVE xTickLoop(_, _, _, _, _)
xTickFrom(x, next, xMin, xMax, xRange, xStep) ==
    IF next = x THEN [els |-> <<xTick(x, xMin, xRange)>>, hang |-> TRUE]
    ELSE Prepend(xTick(x, xMin, xRange), xTickLoop(next, xMin, xMax, xRange, xStep))

xTickLoop(x, xMin, xMax, xRange, xStep) ==
    IF ~XLe(x, xMax) THEN [els |-> <<>>, hang |-> FALSE]
    ELSE xTickFrom(x, XAdd(x, xStep), xMin, xMax, xRange, xStep)

\* drawAxes(svg, chartWidth, chartHeight, xMin, xMax, yMin, yMax, xAxis, yAxis)
\* the step of the x tick loop: xRange > 5 ? Math.ceil(xRange / 5) : 1
xStepOf(xRange) ==
    IF XLt(Fin(5), xRange) THEN XCeil(XDiv(xRange, Fin(5))) ELSE Fin(1)

\* the x ticks of drawAxes, xRange being xMax - xMin || 1
xTicks(xMin, xMax, xRange) == xTickLoop(xMin, xMin, xMax, xRange, xStepOf(xRange))

\* the elements drawAxes appends, given the outcome of its x tick loop
axesWith(loop, yMin, yMax, xAxis, yAxis) ==
    [els |-> axisFrame(xAxis, yAxis) \o loop.els
             \o (IF loop.hang THEN <<>> ELSE yTicks(yMin, yMax, 0)),
     hang |-> loop.hang]

drawAxes(xMin, xMax, yMin, yMax, xAxis, yAxis) ==
    axesWith(xTicks(xMin, xMax, XOr(XSub(xMax, xMin), Fin(1))), yMin, yMax, xAxis, yAxis)

\* drawCategoryAxes(svg, chartWidth, chartHeight, xCategories, yMin, yMax, xAxis, yAxis)
drawCategoryAxes(xCategories, yMin, yMax, xAxis, yAxis) ==
    LET catCount == Len(xCategories)
        ticks == [j \in 1..catCount |->
                    LET xPos == XAdd(Fin(marginLeft),
                                     XMul(XDiv(Fin(j - 1), XOr(Fin(catCount - 1), Fin(1))),
                                          Fin(chartWidth)))
                    IN  TextEl("axis-text", "middle", xPos,
                               Fin(height - marginBottom + 20),
                               TextStr(StringOf(xCategories[j])))]
    IN  axisFrame(xAxis, yAxis) \o ticks \o yTicks(yMin, yMax, 1)

\* drawBarAxes(svg, chartWidth, chartHeight, xLabels, yMin, yMax, xAxis, yAxis)
drawBarAxes(xLabels, yMin, yMax, xAxis, yAxis) ==
    LET barSpacing == XDiv(Fin(chartWidth), Fin(Len(xLabels)))
        ticks == [j \in 1..Len(xLabels) |->
                    LET xPos == XAdd(XAdd(Fin(marginLeft), XMul(Fin(j - 1), barSpacing)),
                                     XDiv(barSpacing, Fin(2)))
                    IN  TextEl("axis-text", "middle", xPos,
                               Fin(height - marginBottom + 20),
                               TextStr(StringOf(xLabels[j])))]
    IN  axisFrame(xAxis, yAxis) \o ticks \o yTicks(yMin, yMax, 1)

\* drawLegend(svg, series, x)
RECURSIVE drawLegend(_, _)
drawLegend(series, x) ==
    IF series = <<>> THEN <<>>
    ELSE LET i == Len(series) - 1
             s == series[Len(series)]
             legendY == marginTop + i * 25
         IN  drawLegend(SubSeq(series, 1, i), x)
             \o << createSVGElement("rect", "legend-rect", "", Fin(x - 60),
                                    Fin(legendY - 10), Fin(15), Fin(15), NoText, <<>>),
                   TextEl("legend-text", "", Fin(x - 40), Fin(legendY), TextStr(s.name)) >>

(***************************************************************************)
(* ChartRenderer.renderLineChart (app.js 644-762)                          *)
(*                                                                         *)
(* A ChartSpec is [title, type, data, xAxis, yAxis, series]: data and      *)
(* series are optional sequences, yAxis.min and yAxis.max optional         *)
(* integers, a series is [name, field, filter] with filter an optional set *)
(* of <<key, value>> pairs.  A row is a record of JavaScript values.       *)
(***************************************************************************)
\* a === b
StrictEq(a, b) == a = b /\ a.t # "NaN"

\* data.map(d => d[xAxis.field])
xValuesOf(spec) ==
    [i \in 1..Len(spec.data.val) |-> Get(spec.data.val[i], spec.xAxis.field)]

\* xValues.every(v => typeof v === 'number' && !isNaN(v))
isNumericX(xValues) ==
    \A i \in 1..Len(xValues) : TypeOf(xValues[i]) = "number" /\ ~IsNaN(xValues[i])

\* the comparator of the sort at line 659
xCompare(numeric, a, b) ==
    IF numeric THEN XSign(XSub(ToNumber(a), ToNumber(b)))
    ELSE LocaleCompare(StringOf(a), StringOf(b))

\* [...new Set(xValues)].sort(...)
sortedX(numeric, distinct) ==
    SortBy(distinct,
           [p \in Range(distinct) \X Range(distinct) |-> xCompare(numeric, p[1], p[2])])

uniqueXValues(xValues) == sortedX(isNumericX(xValues), SetOf(xValues))

\* variant of xScaleNumeric that divides by xRange itself
xScaleNumericUnguarded(xMin, xRange, value) ==
    XAdd(Fin(marginLeft),
         XMul(XDiv(XSub(ToNumber(value), xMin), xRange), Fin(chartWidth)))

\* xScale of the numeric branch (666-668)
xScaleNumeric(xMin, xRange, value) ==
    XAdd(Fin(marginLeft),
         XMul(XDiv(XSub(ToNumber(value), xMin), XOr(xRange, Fin(1))), Fin(chartWidth)))

\* variant of categoryPosition that uses the result of indexOf as it is
categoryPositionOfIndex(idx, xRange) ==
    XAdd(Fin(marginLeft), XMul(XDiv(Fin(idx), XOr(xRange, Fin(1))), Fin(chartWidth)))

\* xScale of the categorical branch (673-676)
categoryPosition(idx, xRange) ==
    XAdd(Fin(marginLeft),
         XMul(XDiv(Fin(IF idx >= 0 THEN idx ELSE 0), XOr(xRange, Fin(1))), Fin(chartWidth)))

xScaleCategory(categories, xRange, value) ==
    categoryPosition(IndexOf(categories, Str(StringOf(value))), xRange)

\* yScale (683-685, 786-788)
yScale(yMin, yRange, value) ==
    XSub(Fin(height - marginBottom),
         XMul(XDiv(XSub(ToNumber(value), yMin), XOr(yRange, Fin(1))), Fin(chartHeight)))

\* variant of yBound: yAxis.min || dflt
yBoundOrDefault(opt, dflt) == IF opt.has /\ opt.val # 0 THEN Fin(opt.val) ELSE dflt

\* yAxis.min !== undefined ? yAxis.min : dflt
yBound(opt, dflt) == IF opt.has THEN Fin(opt.val) ELSE dflt

\* variant of seriesDataOf that ignores the filter of the series
seriesDataUnfiltered(data, s) == data

\* data.filter(d => !s.filter || Object.entries(s.filter).every(...))
seriesDataOf(data, s) ==
    SelectSeq(data, LAMBDA d :
        ~s.filter.has \/ \A kv \in s.filter.val : StrictEq(Get(d, kv[1]), kv[2]))

\* the scale parameters renderLineChart computes at 656-685.  In the
\* categorical branch xMin and xMax are assigned but never read; they are 0 here.
scaleRecord(numeric, unique, xMin, xMax, yMin, yMax) ==
    [isNumericX |-> numeric, uniqueXValues |-> unique, xMin |-> xMin, xMax |-> xMax,
     xRange |-> IF numeric THEN XSub(xMax, xMin) ELSE Fin(Len(unique) - 1),
     yMin |-> yMin, yMax |-> yMax, yRange |-> XSub(yMax, yMin)]

scalesFor(spec, numeric, xValues) ==
    scaleRecord(numeric, uniqueXValues(xValues),
                IF numeric THEN MathMin([i \in 1..Len(xValues) |-> ToNumber(xValues[i])])
                ELSE Fin(0),
                IF numeric THEN MathMax([i \in 1..Len(xValues) |-> ToNumber(xValues[i])])
                ELSE Fin(0),
                yBound(spec.yAxis.min, Fin(0)), yBound(spec.yAxis.max, Fin(100)))

scalesOf(spec, xValues) == scalesFor(spec, isNumericX(xValues), xValues)

lineScales(spec) == scalesOf(spec, xValuesOf(spec))

xScale(sc, value) ==
    IF sc.isNumericX THEN xScaleNumeric(sc.xMin, sc.xRange, value)
    ELSE xScaleCategory(sc.uniqueXValues, sc.xRange, value)

\* the comparator of the sort at 720-725
rowCompare(sc, field, a, b) ==
    IF sc.isNumericX
    THEN XSign(XSub(ToNumber(Get(a, field)), ToNumber(Get(b, field))))
    ELSE IndexOf(sc.uniqueXValues, Str(StringOf(Get(a, field))))
         - IndexOf(sc.uniqueXValues, Str(StringOf(Get(b, field))))

sortRows(sc, field, seriesData) ==
    SortBy(seriesData,
           [p \in Range(seriesData) \X Range(seriesData) |->
               rowCompare(sc, field, p[1], p[2])])

seriesPoints(spec, sc, s, sorted) ==
    [i \in 1..Len(sorted) |->
        [x |-> xScale(sc, Get(sorted[i], spec.xAxis.field)),
         y |-> yScale(sc.yMin, sc.yRange, Get(sorted[i], s.field))]]

pathAndPoints(points) ==
    << createSVGElement("path", "data-line", "", Fin(0), Fin(0), Fin(0), Fin(0),
                        NoText, points) >>
    \o [i \in 1..Len(points) |->
           createSVGElement("circle", "data-point", "", points[i].x, points[i].y,
                            Fin(0), Fin(0), NoText, <<>>)]

drawSeriesData(spec, sc, s, seriesData) ==
    IF Len(seriesData) = 0 THEN <<>>
    ELSE pathAndPoints(seriesPoints(spec, sc, s, sortRows(sc, spec.xAxis.field, seriesData)))

\* one series of the forEach at 712-758: the path and its point markers
drawSeries(spec, sc, s) == drawSeriesData(spec, sc, s, seriesDataOf(spec.data.val, s))

RECURSIVE drawAllSeries(_, _, _)
drawAllSeries(spec, sc, series) ==
    IF series = <<>> THEN <<>>
    ELSE drawSeries(spec, sc, Head(series)) \o drawAllSeries(spec, sc, Tail(series))

\* renderLineChart(svg, spec): the children of svg afterwards and how the
\* call ended: "ok", "throw" (an exception leaves the call) or "hang" (the
\* call never returns)
\* the axes of a line chart (704-709)
lineAxes(spec, sc) ==
    IF sc.isNumericX
    THEN drawAxes(sc.xMin, sc.xMax, sc.yMin, sc.yMax, spec.xAxis, spec.yAxis)
    ELSE [els |-> drawCategoryAxes(sc.uniqueXValues, sc.yMin, sc.yMax,
                                   spec.xAxis, spec.yAxis),
          hang |-> FALSE]

\* renderLineChart from "Clear SVG" (687) on
drawLine(svgIn, spec, sc, axes) ==
    [svg |-> ClearSvg(svgIn) \o gridLines \o axes.els
             \o (IF ~axes.hang /\ spec.series.has
                 THEN drawAllSeries(spec, sc, spec.series.val)
                      \o drawLegend(spec.series.val, width - marginRight - 10)
                 ELSE <<>>),
     outcome |-> IF axes.hang THEN "hang" ELSE IF ~spec.series.has THEN "throw" ELSE "ok",
     xKind |-> IF sc.isNumericX THEN "numeric" ELSE "categorical"]

renderLineScaled(svgIn, spec, sc) == drawLine(svgIn, spec, sc, lineAxes(spec, sc))

renderLineChart(svgIn, spec) ==
    IF ~spec.data.has \/ Len(spec.data.val) = 0
    THEN [svg |-> renderNoData(svgIn), outcome |-> "ok", xKind |-> "none"]
    ELSE renderLineScaled(svgIn, spec, lineScales(spec))

(***************************************************************************)
(* ChartRenderer.renderBarChart (app.js 767-841)                           *)
(***************************************************************************)
\* value.toFixed exists: value is a number
HasToFixed(v) == TypeOf(v) = "number"

\* Math.abs(a)
XAbs(a) == IF XLt(a, Fin(0)) THEN XNeg(a) ELSE a

\* the rect of one bar and its value label (821-839)
barElements(value, barX, barY, barWidth, barHeight) ==
    << createSVGElement("rect", "data-bar", "", barX, barY, barWidth, barHeight,
                        NoText, <<>>),
       TextEl("axis-text", "middle", XAdd(barX, XDiv(barWidth, Fin(2))),
              XSub(barY, Fin(5)), TextFixed(1, ToNumber(value))) >>

barAt(value, i, yv, y0, barSpacing, barWidth) ==
    barElements(value,
                XAdd(XAdd(Fin(marginLeft), XMul(Fin(i), barSpacing)),
                     XDiv(XSub(barSpacing, barWidth), Fin(2))),
                MathMin(<<yv, y0>>), barWidth, XAbs(XSub(yv, y0)))

barSpaced(value, i, yv, y0, barSpacing) ==
    barAt(value, i, yv, y0, barSpacing, XMul(barSpacing, Frac(7, 10)))

\* bar i (from 0) of n bars
drawBar(value, i, n, yMin, yRange) ==
    barSpaced(value, i, yScale(yMin, yRange, value), yScale(yMin, yRange, Num(0)),
              XDiv(Fin(chartWidth), Fin(n)))

PrependBar(bar, r) == [els |-> bar \o r.els, threw |-> r.threw]

\* the bars of data.forEach (815-840), up to the row whose label raises:
\* its rect is appended, its label is not
RECURSIVE drawBars(_, _, _, _, _)
drawBars(data, i, field, yMin, yRange) ==
    IF i > Len(data) THEN [els |-> <<>>, threw |-> FALSE]
    ELSE IF ~HasToFixed(Get(data[i], field))
    THEN [els |-> SubSeq(drawBar(Get(data[i], field), i - 1, Len(data), yMin, yRange), 1, 1),
          threw |-> TRUE]
    ELSE PrependBar(drawBar(Get(data[i], field), i - 1, Len(data), yMin, yRange),
                    drawBars(data, i + 1, field, yMin, yRange))

\* data.map(d => d[series[0].field]), as numbers
barYValues(spec) ==
    [i \in 1..Len(spec.data.val) |->
        ToNumber(Get(spec.data.val[i], spec.series.val[1].field))]

\* renderBarChart from "Clear SVG" (790) on
barDrawn(svgIn, spec, yMin, yMax, bars) ==
    [svg |-> ClearSvg(svgIn) \o gridLines
             \o drawBarAxes(xValuesOf(spec), yMin, yMax, spec.xAxis, spec.yAxis)
             \o bars.els,
     outcome |-> IF bars.threw THEN "throw" ELSE "ok",
     xKind |-> "none"]

barDomain(svgIn, spec, yMin, yMax) ==
    barDrawn(svgIn, spec, yMin, yMax,
             drawBars(spec.data.val, 1, spec.series.val[1].field, yMin, XSub(yMax, yMin)))

\* the y range of a bar chart (779-783)
barScaled(svgIn, spec, yValues) ==
    barDomain(svgIn, spec,
              yBound(spec.yAxis.min, MathMin(<<Fin(0)>> \o yValues)),
              yBound(spec.yAxis.max, MathMax(yValues)))

\* renderBarChart(svg, spec)
renderBarChart(svgIn, spec) ==
    IF ~spec.data.has \/ Len(spec.data.val) = 0
    THEN [svg |-> renderNoData(svgIn), outcome |-> "ok", xKind |-> "none"]
    ELSE IF ~spec.series.has \/ Len(spec.series.val) = 0
    THEN [svg |-> svgIn, outcome |-> "throw", xKind |-> "none"]
    ELSE barScaled(svgIn, spec, barYValues(spec))

(***************************************************************************)
(* Chart specifications the renderer is applied to.                        *)
(***************************************************************************)
XVals == {Num(1), Num(3), Str(<<"1">>), Str(<<"a">>), Str(<<"B">>),
          Null, Undef, NaN, PosInf}
YVals == {Num(50), Null}

Rows == {[year |-> x, value |-> v] : x \in XVals, v \in YVals}

DataChoices ==
    {None(<<>>)} \cup {Some(d) : d \in UNION {[1..n -> Rows] : n \in 0..MaxRows}}

ValueSeries == [name |-> <<"Value">>, field |-> "value", filter |-> None({})]

SeriesChoices == {None(<<>>), Some(<<ValueSeries>>)}

YAxisChoices ==
    {[label |-> <<"Percent">>, min |-> None(0), max |-> None(0)],
     [label |-> <<"Percent">>, min |-> Some(50), max |-> Some(50)]}

ChartSpec(type, d, ya, se) ==
    [title |-> <<"Chart">>, type |-> type, data |-> d,
     xAxis |-> [field |-> "year", label |-> <<"Year">>], yAxis |-> ya, series |-> se]

LineSpecs ==
    {ChartSpec("line", d, ya, se) :
        d \in DataChoices, ya \in YAxisChoices, se \in SeriesChoices}

\* the x values of a bar chart are labels only
BarRows == {[year |-> x, value |-> v] : x \in {Num(1), Str(<<"a">>)}, v \in YVals}

BarDataChoices ==
    {None(<<>>)} \cup {Some(d) : d \in UNION {[1..n -> BarRows] : n \in 0..MaxRows}}

BarSpecs ==
    {ChartSpec("bar", d, ya, se) :
        d \in BarDataChoices, ya \in YAxisChoices, se \in SeriesChoices}

\* a well-formed line chart of two rows
SampleLine ==
    ChartSpec("line",
              Some(<<[year |-> Num(1), value |-> Num(50)], [year |-> Num(3), value |-> Num(50)]>>),
              [label |-> <<"Percent">>, min |-> None(0), max |-> None(0)],
              Some(<<ValueSeries>>))

\* what an <svg> element may hold before a call: nothing (renderCharts
\* creates it), the placeholder, or a chart drawn earlier
PriorSvgs == {<<>>, renderNoData(<<>>), renderLineChart(<<>>, SampleLine).svg}

NoCall == [fn |-> "none", spec |-> SampleLine,
           outcome |-> "ok", xKind |-> "none", before |-> 0]

(***************************************************************************)
(* SpecRender: one call of the renderer on an <svg> element.               *)
(***************************************************************************)
Returned(fn, spec, r) ==
    /\ svg' = r.svg
    /\ call' = [fn |-> fn, spec |-> spec, outcome |-> r.outcome, xKind |-> r.xKind,
                before |-> Len(svg)]

\* renderLineChart(svg, spec) for a spec of the given set
RenderLineOf(specs) ==
    /\ call.fn = "none"
    /\ \E spec \in specs : Returned("renderLineChart", spec, renderLineChart(svg, spec))
    /\ UNCHANGED appVars

\* renderBarChart(svg, spec) for a spec of the given set
RenderBarOf(specs) ==
    /\ call.fn = "none"
    /\ \E spec \in specs : Returned("renderBarChart", spec, renderBarChart(svg, spec))
    /\ UNCHANGED appVars

RenderLine == RenderLineOf(LineSpecs)

RenderBar == RenderBarOf(BarSpecs)

(***************************************************************************)
(* DashboardApp: the files the server may answer with.                     *)
(* A BOCES name is a string (a sequence of characters); null stands for a  *)
(* null, missing or empty value, which the code treats alike (falsy).      *)
(***************************************************************************)
null == <<>>

CapitalRegion == <<"C", "R">>
Questar == <<"Q", "3">>

\* spec/index.json: Questar has member districts but no cluster spec
IndexDistricts ==
    << [name |-> "Troy", spec_file |-> "troy.json", boces |-> Questar],
       [name |-> "Albany", spec_file |-> "albany.json", boces |-> CapitalRegion],
       [name |-> "Colonie", spec_file |-> "colonie.json", boces |-> CapitalRegion],
       [name |-> "Yonkers", spec_file |-> "yonkers.json", boces |-> null] >>

IndexBoces == << [name |-> CapitalRegion, spec_file |-> "boces_capital.json"] >>

IndexBodies == {[districts |-> Some(IndexDistricts), boces |-> Some(IndexBoces)]}

\* data/sources.json
Source(url, status) == [url |-> url, status |-> status]

SourcesBodies ==
    { <<>>,
      << Source(Some("u1"), "success"), Source(Some("u2"), "failed"),
         Source(Some("u3"), "success") >>,
      << Source(Some("u1"), "success"), Source(None(""), "success"),
         Source(Some("u3"), "failed") >> }

\* spec/<file>.json: no charts, two charts that render, and three charts
\* the second of which lacks its series
SampleBar ==
    ChartSpec("bar", Some(<<[year |-> Str(<<"a">>), value |-> Num(50)]>>),
              [label |-> <<"Percent">>, min |-> None(0), max |-> None(0)],
              Some(<<ValueSeries>>))

BrokenLine == [SampleLine EXCEPT !.title = <<"Broken">>, !.series = None(<<>>)]

SpecBodies ==
    { [charts |-> None(<<>>)],
      [charts |-> Some(<<SampleLine, SampleBar>>)],
      [charts |-> Some(<<SampleLine, BrokenLine, SampleBar>>)] }

\* how a fetch followed by response.json() can fail
FetchFailures == {"reject", "notok", "badjson"}

(***************************************************************************)
(* DashboardApp: the chart area (#charts)                                  *)
(* by and src are history: the user action and the kind of load that wrote *)
(* the content.                                                            *)
(***************************************************************************)
ChartArea(kind, msg, wrappers, by, src) ==
    [kind |-> kind, msg |-> msg, wrappers |-> wrappers, by |-> by, src |-> src]

InitialCharts == ChartArea("initial", "", <<>>, 0, "")

\* clearCharts()
clearCharts(by) ==
    ChartArea("placeholder", "Select a district to view data.", <<>>, by, "")

\* showError(message)
showError(message, by, src) == ChartArea("error", message, <<>>, by, src)

\* the chart rendered into the fresh <svg> of its wrapper (1408-1417)
renderChart(chart) ==
    CASE chart.type = "line" -> renderLineChart(<<>>, chart)
      [] chart.type = "bar" -> renderBarChart(<<>>, chart)
      [] OTHER -> [svg |-> <<>>, outcome |-> "ok", xKind |-> "none"]

PrependWrapper(w, r) == [wrappers |-> <<w>> \o r.wrappers, outcome |-> r.outcome]

\* the wrappers spec.charts.forEach appends, up to the chart whose
\* rendering raises or hangs
RECURSIVE chartWrappers(_)
wrapChart(chart, r, rest) ==
    IF r.outcome # "ok" THEN [wrappers |-> <<>>, outcome |-> r.outcome]
    ELSE PrependWrapper([title |-> chart.title, svg |-> r.svg], chartWrappers(rest))

chartWrappers(chartList) ==
    IF chartList = <<>> THEN [wrappers |-> <<>>, outcome |-> "ok"]
    ELSE wrapChart(Head(chartList), renderChart(Head(chartList)), Tail(chartList))

chartsOf(w, by, src) ==
    [charts |-> ChartArea("charts", "", w.wrappers, by, src), outcome |-> w.outcome]

\* chartWrappers of the chart lists of the spec files a fetch can return,
\* computed once
fetchedCharts ==
    [cs \in {b.charts.val : b \in {x \in SpecBodies : x.charts.has}} |-> chartWrappers(cs)]

\* renderCharts(spec): the chart area afterwards and whether an exception
\* left the call
renderCharts(spec, by, src) ==
    IF ~spec.charts.has \/ Len(spec.charts.val) = 0
    THEN [charts |-> ChartArea("nocharts", "No charts available for this district.",
                               <<>>, by, src),
          outcome |-> "ok"]
    ELSE chartsOf(IF spec.charts.val \in DOMAIN fetchedCharts
                  THEN fetchedCharts[spec.charts.val]
                  ELSE chartWrappers(spec.charts.val), by, src)

(***************************************************************************)
(* DashboardApp: the district selector and the provenance list             *)
(***************************************************************************)
\* populateDistrictSelect(districts): the placeholder option is selected
populateDistrictSelect(ds) ==
    [populated |-> TRUE,
     options |-> [i \in 1..Len(ds) |->
                    [value |-> ds[i].spec_file, name |-> ds[i].name, suffix |-> ds[i].boces]],
     value |-> ""]

\* [...new Set(districts.map(d => d.boces))].filter(Boolean).sort()
bocesNames(ds) ==
    LET names == SelectSeq(SetOf([i \in 1..Len(ds) |-> ds[i].boces]), LAMBDA b : b # null)
    IN  SortBy(names, [p \in Range(names) \X Range(names) |-> OrdinalCompare(p[1], p[2])])

\* the items displaySources appends for the sources it shows, up to the one
\* whose url is missing (truncateUrl raises on it)
RECURSIVE sourceItems(_)
sourceItems(shown) ==
    IF shown = <<>> THEN [els |-> <<>>, threw |-> FALSE]
    ELSE IF ~Head(shown).url.has THEN [els |-> <<>>, threw |-> TRUE]
    ELSE LET rest == sourceItems(Tail(shown))
         IN  [els |-> <<[kind |-> "item", url |-> Head(shown).url.val, n |-> 0]>> \o rest.els,
              threw |-> rest.threw]

\* variant of displaySources whose limit applies to the whole list
displaySourcesLimitingAll(sources) ==
    IF Len(sources) = 0
    THEN [els |-> <<[kind |-> "nodata", url |-> "", n |-> 0]>>, threw |-> FALSE]
    ELSE LET successSources == SelectSeq(sources, LAMBDA x : x.status = "success")
             failedSources == SelectSeq(sources, LAMBDA x : x.status = "failed")
             shown == SubSeq(successSources, 1,
                             IF Len(successSources) < 10 THEN Len(successSources) ELSE 10)
             items == sourceItems(shown)
             more == IF Len(sources) > 10
                     THEN <<[kind |-> "more", url |-> "", n |-> Len(sources) - 10]>>
                     ELSE <<>>
             warning == IF Len(failedSources) > 0
                        THEN <<[kind |-> "warning", url |-> "", n |-> Len(failedSources)]>>
                        ELSE <<>>
         IN  IF items.threw THEN items
             ELSE [els |-> items.els \o more \o warning, threw |-> FALSE]

\* displaySources(sources): the content of #sourcesList afterwards
displaySources(sources) ==
    IF Len(sources) = 0
    THEN [els |-> <<[kind |-> "nodata", url |-> "", n |-> 0]>>, threw |-> FALSE]
    ELSE LET successSources == SelectSeq(sources, LAMBDA x : x.status = "success")
             failedSources == SelectSeq(sources, LAMBDA x : x.status = "failed")
             shown == SubSeq(successSources, 1,
                             IF Len(successSources) < 10 THEN Len(successSources) ELSE 10)
             items == sourceItems(shown)
             more == IF Len(successSources) > 10
                     THEN <<[kind |-> "more", url |-> "", n |-> Len(successSources) - 10]>>
                     ELSE <<>>
             warning == IF Len(failedSources) > 0
                        THEN <<[kind |-> "warning", url |-> "", n |-> Len(failedSources)]>>
                        ELSE <<>>
         IN  IF items.threw THEN items
             ELSE [els |-> items.els \o more \o warning, threw |-> FALSE]

(***************************************************************************)
(* DashboardApp: Spec                                                      *)
(*                                                                         *)
(* A load is fetch() followed by response.json().  No state is read or     *)
(* written between the two awaits, so a load is resolved in one step, at   *)
(* the moment its last await settles, with one of the outcomes reject,     *)
(* non-OK response, unparsable body, or a parsed body.                     *)
(***************************************************************************)
DefaultClusterText == <<"Show BOCES Cluster Comparison">>
CompareText(b) == <<"Compare ">> \o b \o <<" Districts">>

\* history: the completion of a spec load
Completed(p, ok, spec) == [id |-> p.id, ok |-> ok, spec |-> spec]
NoLoad == [id |-> 0, ok |-> FALSE, spec |-> [charts |-> None(<<>>)]]

\* fetch(url) is called: one more request of that kind has been issued
fetch(kind) == [fetches EXCEPT ![kind] = @ + 1]

\* new DashboardApp() on a freshly loaded page
AppInit ==
    /\ districts = <<>>
    /\ boces = <<>>
    /\ currentBoces = null
    /\ clusterView = FALSE
    /\ districtSelect = [populated |-> FALSE, options |-> <<>>, value |-> ""]
    /\ bocesFilter = [options |-> <<>>, value |-> null]
    /\ showClusterBtn = [disabled |-> TRUE, textContent |-> DefaultClusterText]
    /\ showDistrictBtn = "none"
    /\ charts = InitialCharts
    /\ sourcesList = <<>>
    /\ pc = "start"
    /\ listeners = FALSE
    /\ pending = {}
    /\ nAct = 0
    /\ indexOutcome = "none"
    /\ sourcesOutcome = "none"
    /\ lastLoad = NoLoad
    /\ fetches = [index |-> 0, sources |-> 0, spec |-> 0]

Init ==
    /\ AppInit
    /\ svg = <<>>
    /\ call = NoCall

\* variant of init: setupEventListeners is called before loadDistricts is awaited
initWiringFirst ==
    /\ pc = "start"
    /\ pc' = "loadDistricts"
    /\ listeners' = TRUE
    /\ UNCHANGED <<districts, boces, currentBoces, clusterView, districtSelect,
                   bocesFilter, showClusterBtn, showDistrictBtn, charts, sourcesList,
                   pending, nAct, indexOutcome, sourcesOutcome>>
    /\ fetches' = fetch("index")
    /\ UNCHANGED <<lastLoad, svg, call>>

\* init() up to its first await: loadDistricts has issued fetch('spec/index.json')
init ==
    /\ pc = "start"
    /\ pc' = "loadDistricts"
    /\ UNCHANGED <<districts, boces, currentBoces, clusterView, districtSelect,
                   bocesFilter, showClusterBtn, showDistrictBtn, charts, sourcesList,
                   listeners, pending, nAct, indexOutcome, sourcesOutcome>>
    /\ fetches' = fetch("index")
    /\ UNCHANGED <<lastLoad, svg, call>>

\* loadDistricts resumes with the parsed index; init goes on to loadSources,
\* which issues fetch('data/sources.json')
loadDistrictsOk(data) ==
    /\ pc = "loadDistricts"
    /\ districts' = (IF data.districts.has THEN data.districts.val ELSE <<>>)
    /\ boces' = (IF data.boces.has THEN data.boces.val ELSE <<>>)
    /\ bocesFilter' = [options |-> bocesNames(districts'), value |-> null]
    /\ districtSelect' = populateDistrictSelect(districts')
    /\ indexOutcome' = "ok"
    /\ pc' = "loadSources"
    /\ UNCHANGED <<currentBoces, clusterView, showClusterBtn, showDistrictBtn, charts,
                   sourcesList, listeners, pending, nAct, sourcesOutcome>>
    /\ fetches' = fetch("sources")
    /\ UNCHANGED <<lastLoad, svg, call>>

\* variant of loadDistrictsFail: loadDistricts logs the failure without
\* rethrowing it, as loadSources does, and init goes on
loadDistrictsFailLogged(failure) ==
    /\ pc = "loadDistricts"
    /\ indexOutcome' = failure
    /\ pc' = "loadSources"
    /\ UNCHANGED <<districts, boces, currentBoces, clusterView, districtSelect,
                   bocesFilter, showClusterBtn, showDistrictBtn, charts, sourcesList,
                   listeners, pending, nAct, sourcesOutcome>>
    /\ fetches' = fetch("sources")
    /\ UNCHANGED <<lastLoad, svg, call>>

\* loadDistricts catches the failure, logs and rethrows; init's handler
\* shows the error and init ends
loadDistrictsFail(failure) ==
    /\ pc = "loadDistricts"
    /\ indexOutcome' = failure
    /\ charts' = showError("Failed to load dashboard data. Please try again later.", 0, "")
    /\ pc' = "failed"
    /\ UNCHANGED <<districts, boces, currentBoces, clusterView, districtSelect,
                   bocesFilter, showClusterBtn, showDistrictBtn, sourcesList,
                   listeners, pending, nAct, sourcesOutcome>>
    /\ UNCHANGED <<lastLoad, fetches, svg, call>>

\* setupEventListeners(), reached when loadSources has returned
setupEventListeners ==
    /\ listeners' = TRUE
    /\ pc' = "done"

\* variant of loadSourcesFail: loadSources rethrows the failure, as
\* loadDistricts does, and init's handler shows the error
loadSourcesFailRethrown(failure) ==
    /\ pc = "loadSources"
    /\ sourcesOutcome' = failure
    /\ charts' = showError("Failed to load dashboard data. Please try again later.", 0, "")
    /\ pc' = "failed"
    /\ UNCHANGED <<districts, boces, currentBoces, clusterView, districtSelect,
                   bocesFilter, showClusterBtn, showDistrictBtn, sourcesList,
                   listeners, pending, nAct, indexOutcome>>
    /\ UNCHANGED <<lastLoad, fetches, svg, call>>

\* loadSources ends without a list (its own handler logs the failure), then
\* init wires the handlers
loadSourcesFail(failure) ==
    /\ pc = "loadSources"
    /\ sourcesOutcome' = failure
    /\ setupEventListeners
    /\ UNCHANGED <<districts, boces, currentBoces, clusterView, districtSelect,
                   bocesFilter, showClusterBtn, showDistrictBtn, charts, sourcesList,
                   pending, nAct, indexOutcome>>
    /\ UNCHANGED <<lastLoad, fetches, svg, call>>

\* loadSources resumes with the parsed list and displays it; an exception
\* in displaySources is caught by loadSources; then init wires the handlers
loadSourcesOk(sources) ==
    /\ pc = "loadSources"
    /\ LET shown == displaySources(sources)
       IN  /\ sourcesList' = shown.els
           /\ sourcesOutcome' = (IF shown.threw THEN "displayThrows" ELSE "ok")
    /\ setupEventListeners
    /\ UNCHANGED <<districts, boces, currentBoces, clusterView, districtSelect,
                   bocesFilter, showClusterBtn, showDistrictBtn, charts,
                   pending, nAct, indexOutcome>>
    /\ UNCHANGED <<lastLoad, fetches, svg, call>>

\* a user action can be handled: the handlers are wired
CanAct == listeners /\ nAct < MaxActions

\* the spec fetch a handler starts: loadDistrictSpec(specFile)
loadDistrictSpec(specFile, id) == [id |-> id, kind |-> "district", file |-> specFile]

\* districts.find(d => d.spec_file === specFile)
findDistrict(specFile) ==
    LET hits == SelectSeq(districts, LAMBDA d : d.spec_file = specFile)
    IN  IF hits = <<>> THEN None([name |-> "", spec_file |-> "", boces |-> null])
        ELSE Some(Head(hits))

\* 'change' on #districtSelect
districtSelectChange(specFile) ==
    /\ CanAct
    /\ specFile # districtSelect.value
    /\ specFile = "" \/ \E i \in 1..Len(districtSelect.options) :
                            districtSelect.options[i].value = specFile
    /\ nAct' = nAct + 1
    /\ districtSelect' = [districtSelect EXCEPT !.value = specFile]
    /\ clusterView' = FALSE
    /\ showDistrictBtn' = "none"
    /\ IF specFile # ""
       THEN /\ pending' = pending \cup {loadDistrictSpec(specFile, nAct')}
            /\ fetches' = fetch("spec")
            /\ charts' = charts
            /\ LET district == findDistrict(specFile)
               IN  IF district.has /\ district.val.boces # null
                   THEN /\ currentBoces' = district.val.boces
                        /\ showClusterBtn' = [disabled |-> FALSE,
                                              textContent |-> CompareText(district.val.boces)]
                   ELSE UNCHANGED <<currentBoces, showClusterBtn>>
       ELSE /\ charts' = clearCharts(nAct')
            /\ showClusterBtn' = [disabled |-> TRUE, textContent |-> DefaultClusterText]
            /\ UNCHANGED <<pending, fetches, currentBoces>>
    /\ UNCHANGED <<districts, boces, bocesFilter, sourcesList, pc, listeners,
                   indexOutcome, sourcesOutcome>>
    /\ UNCHANGED <<lastLoad, svg, call>>

\* variant of the 'change' handler of #bocesFilter without this.clearCharts()
bocesFilterChangeKeepingCharts(b) ==
    /\ CanAct
    /\ b # bocesFilter.value
    /\ b = null \/ b \in Range(bocesFilter.options)
    /\ nAct' = nAct + 1
    /\ bocesFilter' = [bocesFilter EXCEPT !.value = b]
    /\ IF b # null
       THEN /\ districtSelect' =
                  populateDistrictSelect(SelectSeq(districts, LAMBDA d : d.boces = b))
            /\ currentBoces' = b
            /\ showClusterBtn' = [disabled |-> FALSE, textContent |-> CompareText(b)]
       ELSE /\ districtSelect' = populateDistrictSelect(districts)
            /\ currentBoces' = null
            /\ showClusterBtn' = [disabled |-> TRUE, textContent |-> DefaultClusterText]
    /\ UNCHANGED charts
    /\ UNCHANGED <<districts, boces, clusterView, showDistrictBtn, sourcesList, pc,
                   listeners, pending, indexOutcome, sourcesOutcome>>
    /\ UNCHANGED <<lastLoad, fetches, svg, call>>

\* variant of the 'change' handler of #bocesFilter that leaves the cluster
\* button as it is when the filter is cleared
bocesFilterChangeLeavingButton(b) ==
    /\ CanAct
    /\ b # bocesFilter.value
    /\ b = null \/ b \in Range(bocesFilter.options)
    /\ nAct' = nAct + 1
    /\ bocesFilter' = [bocesFilter EXCEPT !.value = b]
    /\ IF b # null
       THEN /\ districtSelect' =
                  populateDistrictSelect(SelectSeq(districts, LAMBDA d : d.boces = b))
            /\ currentBoces' = b
            /\ showClusterBtn' = [disabled |-> FALSE, textContent |-> CompareText(b)]
       ELSE /\ districtSelect' = populateDistrictSelect(districts)
            /\ currentBoces' = null
            /\ UNCHANGED showClusterBtn
    /\ charts' = clearCharts(nAct')
    /\ UNCHANGED <<districts, boces, clusterView, showDistrictBtn, sourcesList, pc,
                   listeners, pending, indexOutcome, sourcesOutcome>>
    /\ UNCHANGED <<lastLoad, fetches, svg, call>>

\* 'change' on #bocesFilter
bocesFilterChange(b) ==
    /\ CanAct
    /\ b # bocesFilter.value
    /\ b = null \/ b \in Range(bocesFilter.options)
    /\ nAct' = nAct + 1
    /\ bocesFilter' = [bocesFilter EXCEPT !.value = b]
    /\ IF b # null
       THEN /\ districtSelect' =
                  populateDistrictSelect(SelectSeq(districts, LAMBDA d : d.boces = b))
            /\ currentBoces' = b
            /\ showClusterBtn' = [disabled |-> FALSE, textContent |-> CompareText(b)]
       ELSE /\ districtSelect' = populateDistrictSelect(districts)
            /\ currentBoces' = null
            /\ showClusterBtn' = [disabled |-> TRUE, textContent |-> DefaultClusterText]
    /\ charts' = clearCharts(nAct')
    /\ UNCHANGED <<districts, boces, clusterView, showDistrictBtn, sourcesList, pc,
                   listeners, pending, indexOutcome, sourcesOutcome>>
    /\ UNCHANGED <<lastLoad, fetches, svg, call>>

\* variant of the 'click' handler of #showClusterBtn that enters the cluster
\* view before it looks the region up
showClusterBtnClickEnteringView ==
    /\ CanAct
    /\ ~showClusterBtn.disabled
    /\ nAct' = nAct + 1
    /\ clusterView' = TRUE
    /\ IF currentBoces # null
       THEN LET hits == SelectSeq(boces, LAMBDA e : e.name = currentBoces)
            IN  IF hits = <<>>
                THEN /\ charts' = showError("BOCES cluster data not found.", nAct', "cluster")
                     /\ UNCHANGED <<pending, fetches>>
                ELSE /\ pending' = pending \cup
                            {[id |-> nAct', kind |-> "cluster", file |-> Head(hits).spec_file]}
                     /\ fetches' = fetch("spec")
                     /\ UNCHANGED charts
       ELSE UNCHANGED <<charts, pending, fetches>>
    /\ UNCHANGED <<districts, boces, currentBoces, districtSelect,
                   bocesFilter, showClusterBtn, showDistrictBtn, sourcesList, pc,
                   listeners, indexOutcome, sourcesOutcome>>
    /\ UNCHANGED <<lastLoad, svg, call>>

\* 'click' on #showClusterBtn: loadBocesCluster(currentBoces) up to its await
showClusterBtnClick ==
    /\ CanAct
    /\ ~showClusterBtn.disabled
    /\ nAct' = nAct + 1
    /\ IF currentBoces # null
       THEN LET hits == SelectSeq(boces, LAMBDA e : e.name = currentBoces)
            IN  IF hits = <<>>
                THEN /\ charts' = showError("BOCES cluster data not found.", nAct', "cluster")
                     /\ UNCHANGED <<pending, fetches>>
                ELSE /\ pending' = pending \cup
                            {[id |-> nAct', kind |-> "cluster", file |-> Head(hits).spec_file]}
                     /\ fetches' = fetch("spec")
                     /\ UNCHANGED charts
       ELSE UNCHANGED <<charts, pending, fetches>>
    /\ UNCHANGED <<districts, boces, currentBoces, clusterView, districtSelect,
                   bocesFilter, showClusterBtn, showDistrictBtn, sourcesList, pc,
                   listeners, indexOutcome, sourcesOutcome>>
    /\ UNCHANGED <<lastLoad, svg, call>>

\* 'click' on #showDistrictBtn
showDistrictBtnClick ==
    /\ CanAct
    /\ showDistrictBtn # "none"
    /\ nAct' = nAct + 1
    /\ clusterView' = FALSE
    /\ showDistrictBtn' = "none"
    /\ IF districtSelect.value # ""
       THEN /\ pending' = pending \cup {loadDistrictSpec(districtSelect.value, nAct')}
            /\ fetches' = fetch("spec")
            /\ UNCHANGED charts
       ELSE /\ charts' = clearCharts(nAct')
            /\ UNCHANGED <<pending, fetches>>
    /\ UNCHANGED <<districts, boces, currentBoces, districtSelect, bocesFilter,
                   showClusterBtn, sourcesList, pc, listeners, indexOutcome,
                   sourcesOutcome>>
    /\ UNCHANGED <<lastLoad, svg, call>>

\* the chart area after renderCharts inside the try block of a load: the
\* handler replaces it by the error message when renderCharts raised
rendered(r, message, by, src) ==
    IF r.outcome = "ok" THEN r.charts ELSE showError(message, by, src)

\* loadDistrictSpec resumes with the parsed spec
districtSpecLoaded(p, spec) ==
    /\ p \in pending /\ p.kind = "district"
    /\ pending' = pending \ {p}
    /\ lastLoad' = Completed(p, TRUE, spec)
    /\ charts' = rendered(renderCharts(spec, p.id, "district"),
                          "Failed to load district data.", p.id, "district")
    /\ UNCHANGED <<districts, boces, currentBoces, clusterView, districtSelect,
                   bocesFilter, showClusterBtn, showDistrictBtn, sourcesList, pc,
                   listeners, nAct, indexOutcome, sourcesOutcome>>
    /\ UNCHANGED fetches
    /\ UNCHANGED renderVars

\* variant of the failure of loadDistrictSpec: the catch block fetches the
\* spec again instead of showing the error
districtSpecFailedRetrying(p) ==
    /\ p \in pending /\ p.kind = "district"
    /\ fetches' = fetch("spec")
    /\ lastLoad' = Completed(p, FALSE, NoLoad.spec)
    /\ UNCHANGED <<districts, boces, currentBoces, clusterView, districtSelect,
                   bocesFilter, showClusterBtn, showDistrictBtn, charts, sourcesList,
                   pc, listeners, pending, nAct, indexOutcome, sourcesOutcome>>
    /\ UNCHANGED renderVars

\* the fetch of loadDistrictSpec fails
districtSpecFailed(p) ==
    /\ p \in pending /\ p.kind = "district"
    /\ pending' = pending \ {p}
    /\ lastLoad' = Completed(p, FALSE, NoLoad.spec)
    /\ charts' = showError("Failed to load district data.", p.id, "district")
    /\ UNCHANGED <<districts, boces, currentBoces, clusterView, districtSelect,
                   bocesFilter, showClusterBtn, showDistrictBtn, sourcesList, pc,
                   listeners, nAct, indexOutcome, sourcesOutcome>>
    /\ UNCHANGED fetches
    /\ UNCHANGED renderVars

\* variant of clusterSpecLoaded that does not show #showDistrictBtn
clusterSpecLoadedButtonHidden(p, spec) ==
    /\ p \in pending /\ p.kind = "cluster"
    /\ pending' = pending \ {p}
    /\ lastLoad' = Completed(p, TRUE, spec)
    /\ clusterView' = TRUE
    /\ UNCHANGED showDistrictBtn
    /\ charts' = rendered(renderCharts(spec, p.id, "cluster"),
                          "Failed to load BOCES cluster data.", p.id, "cluster")
    /\ UNCHANGED <<districts, boces, currentBoces, districtSelect, bocesFilter,
                   showClusterBtn, sourcesList, pc, listeners, nAct, indexOutcome,
                   sourcesOutcome>>
    /\ UNCHANGED fetches
    /\ UNCHANGED renderVars

\* loadBocesCluster resumes with the parsed cluster spec
clusterSpecLoaded(p, spec) ==
    /\ p \in pending /\ p.kind = "cluster"
    /\ pending' = pending \ {p}
    /\ lastLoad' = Completed(p, TRUE, spec)
    /\ clusterView' = TRUE
    /\ showDistrictBtn' = "inline-block"
    /\ charts' = rendered(renderCharts(spec, p.id, "cluster"),
                          "Failed to load BOCES cluster data.", p.id, "cluster")
    /\ UNCHANGED <<districts, boces, currentBoces, districtSelect, bocesFilter,
                   showClusterBtn, sourcesList, pc, listeners, nAct, indexOutcome,
                   sourcesOutcome>>
    /\ UNCHANGED fetches
    /\ UNCHANGED renderVars

\* the fetch of loadBocesCluster fails
clusterSpecFailed(p) ==
    /\ p \in pending /\ p.kind = "cluster"
    /\ pending' = pending \ {p}
    /\ lastLoad' = Completed(p, FALSE, NoLoad.spec)
    /\ charts' = showError("Failed to load BOCES cluster data.", p.id, "cluster")
    /\ UNCHANGED <<districts, boces, currentBoces, clusterView, districtSelect,
                   bocesFilter, showClusterBtn, showDistrictBtn, sourcesList, pc,
                   listeners, nAct, indexOutcome, sourcesOutcome>>
    /\ UNCHANGED fetches
    /\ UNCHANGED renderVars

SpecFiles == {IndexDistricts[i].spec_file : i \in 1..Len(IndexDistricts)}

Next ==
    \/ init
    \/ \E data \in IndexBodies : loadDistrictsOk(data)
    \/ \E failure \in FetchFailures : loadDistrictsFail(failure)
    \/ \E failure \in FetchFailures : loadSourcesFail(failure)
    \/ \E sources \in SourcesBodies : loadSourcesOk(sources)
    \/ \E specFile \in SpecFiles \cup {""} : districtSelectChange(specFile)
    \/ \E b \in {null, CapitalRegion, Questar} : bocesFilterChange(b)
    \/ showClusterBtnClick
    \/ showDistrictBtnClick
    \/ \E p \in pending, spec \in SpecBodies : districtSpecLoaded(p, spec)
    \/ \E p \in pending : districtSpecFailed(p)
    \/ \E p \in pending, spec \in SpecBodies : clusterSpecLoaded(p, spec)
    \/ \E p \in pending : clusterSpecFailed(p)

Spec == Init /\ [][Next]_vars

(***************************************************************************)
(* SpecRender                                                              *)
(***************************************************************************)
InitRender ==
    /\ AppInit
    /\ svg \in PriorSvgs
    /\ call = NoCall

NextRender == RenderLine \/ RenderBar

SpecRender == InitRender /\ [][NextRender]_vars

(***************************************************************************)
(* SpecDomain: the renderer applied to specs that vary the y axis bounds   *)
(* and the sign of the values.                                             *)
(***************************************************************************)
DomainRows ==
    {[year |-> x, value |-> v] :
        x \in {Num(1), Str(<<"a">>)}, v \in {Num(0 - 40), Num(30), Null}}

DomainYAxes ==
    {[label |-> <<"Percent">>, min |-> lo, max |-> hi] :
        lo \in {None(0), Some(0)}, hi \in {None(0), Some(50)}}

DomainData == UNION {[1..n -> DomainRows] : n \in 1..MaxRows}

DomainLineSpecs ==
    {ChartSpec("line", Some(d), ya, Some(<<ValueSeries>>)) :
        d \in DomainData, ya \in DomainYAxes}

DomainBarSpecs ==
    {ChartSpec("bar", Some(d), ya, Some(<<ValueSeries>>)) :
        d \in DomainData, ya \in DomainYAxes}

NextDomain == RenderLineOf(DomainLineSpecs) \/ RenderBarOf(DomainBarSpecs)

SpecDomain == InitRender /\ [][NextDomain]_vars

(***************************************************************************)
(* SpecScale: the xScale closure of the categorical branch of              *)
(* renderLineChart, applied to a value that need not occur in the column.  *)
(***************************************************************************)
\* the values looked up
LookupVals == XVals \cup {Str(<<"z">>), Num(2)}

\* line charts with a categorical x column
CategoricalSpecs ==
    {sp \in {ChartSpec("line", Some(d), SampleLine.yAxis, SampleLine.series) :
                d \in UNION {[1..n -> {r \in Rows : r.value = Num(50)}] : n \in 1..MaxRows}} :
        ~isNumericX(xValuesOf(sp))}

\* xScale(value), inside renderLineChart(svg, spec)
xScaleLookup ==
    /\ call.fn = "none"
    /\ \E spec \in CategoricalSpecs, value \in LookupVals :
          call' = [fn |-> "xScale", spec |-> spec, outcome |-> "ok",
                   xKind |-> "categorical", before |-> 0, value |-> value,
                   pos |-> xScale(lineScales(spec), value)]
    /\ UNCHANGED svg
    /\ UNCHANGED appVars

InitScale ==
    /\ AppInit
    /\ svg = <<>>
    /\ call = NoCall

NextScale == xScaleLookup

SpecScale == InitScale /\ [][NextScale]_vars

(***************************************************************************)
(* SpecSources: displaySources applied to lists longer than its limit.     *)
(***************************************************************************)
\* the status of entry i: every f-th entry failed, every o-th of the rest
\* neither fetched nor failed
SourceStatus(i, f, o) ==
    IF f > 0 /\ i % f = 0 THEN "failed"
    ELSE IF o > 0 /\ i % o = 0 THEN "pending"
    ELSE "success"

SourceList(n, f, o) ==
    [i \in 1..n |-> Source(Some(ToString(i)), SourceStatus(i, f, o))]

SourceLists ==
    {SourceList(n, f, o) : n \in 0..MaxSources, f \in {0, 2, 3, 5, 12}, o \in {0, 3, 4, 7}}

\* this.displaySources(sources) on a parsed data/sources.json
displaySourcesCall ==
    /\ call.fn = "none"
    /\ \E sources \in SourceLists :
          /\ sourcesList' = displaySources(sources).els
          /\ call' = [fn |-> "displaySources", spec |-> SampleLine,
                      outcome |-> (IF displaySources(sources).threw THEN "throws" ELSE "ok"),
                      xKind |-> "", before |-> 0, sources |-> sources]
    /\ UNCHANGED <<districts, boces, currentBoces, clusterView, districtSelect,
                   bocesFilter, showClusterBtn, showDistrictBtn, charts,
                   pc, listeners, pending, nAct, indexOutcome,
                   sourcesOutcome, lastLoad, fetches, svg>>

InitSources ==
    /\ AppInit
    /\ svg = <<>>
    /\ call = NoCall

NextSources == displaySourcesCall

SpecSources == InitSources /\ [][NextSources]_vars

(***************************************************************************)
(* SpecBenchmark: the regional benchmark series of a BOCES cluster.  The   *)
(* spec builder is not part of the client; it is modelled from its         *)
(* contract: one point per period, the arithmetic mean of the values the   *)
(* member districts report for the metric, no point where none reports.    *)
(***************************************************************************)
Row(district, period, metric, value) ==
    [district |-> district, period |-> period, metric |-> metric, value |-> value]

FirstPeriod == 2019
Periods == FirstPeriod..(FirstPeriod + MaxPeriods - 1)

\* the rows of districts A and B for the metric "ela", next to rows of a
\* third district and of another metric
RowTables ==
    { {Row(k[1], k[2], "ela", f[k]) : k \in {"A", "B"} \X Periods}
        \cup {Row("C", FirstPeriod, "ela", Num(90)), Row("C", FirstPeriod + 1, "ela", Null),
              Row("A", FirstPeriod, "math", Num(10))}
      : f \in [{"A", "B"} \X Periods -> {Null, Num(50), Num(65), Num(70)}] }

Clusters == {{"A", "B"}, {"B", "C"}}

\* the rows of the member districts that report a value of the metric at
\* the period
reportingRows(rows, members, metric, period) ==
    {r \in rows : /\ r.district \in members /\ r.metric = metric
                  /\ r.period = period /\ r.value # Null}

RECURSIVE sumValues(_)
sumValues(rows) ==
    IF rows = {} THEN 0
    ELSE LET r == CHOOSE x \in rows : TRUE
         IN  r.value.n + sumValues(rows \ {r})

\* variant of benchmarkPoint that counts a null value as 0
benchmarkPointOverMembers(reporting, period) ==
    <<[period |-> period, value |-> Frac(sumValues(reporting), 2)]>>

\* the benchmark points of the given rows, one per period, in period order
benchmarkPoint(reporting, period) ==
    IF reporting = {} THEN <<>>
    ELSE <<[period |-> period,
            value |-> Frac(sumValues(reporting), Cardinality(reporting))]>>

RECURSIVE benchmarkFrom(_, _, _, _)
benchmarkFrom(rows, members, metric, period) ==
    IF period \notin Periods THEN <<>>
    ELSE benchmarkPoint(reportingRows(rows, members, metric, period), period)
           \o benchmarkFrom(rows, members, metric, period + 1)

benchmarkSeries(rows, members, metric) == benchmarkFrom(rows, members, metric, FirstPeriod)

\* the cluster spec of a region is built
buildBenchmark ==
    /\ call.fn = "none"
    /\ \E rows \in RowTables, members \in Clusters :
          call' = [fn |-> "benchmarkSeries", spec |-> SampleLine, outcome |-> "ok",
                   xKind |-> "", before |-> 0, rows |-> rows, members |-> members,
                   metric |-> "ela",
                   points |-> benchmarkSeries(rows, members, "ela")]
    /\ UNCHANGED svg
    /\ UNCHANGED appVars

InitBenchmark ==
    /\ AppInit
    /\ svg = <<>>
    /\ call = NoCall

NextBenchmark == buildBenchmark

SpecBenchmark == InitBenchmark /\ [][NextBenchmark]_vars

(***************************************************************************)
(* SpecAnnotations: the annotation placer.  It runs when the specs are     *)
(* built, not in the client; it is modelled from its contract,             *)
(* attachAnnotations(chartSpec, allAnnotations) for the district being     *)
(* built.                                                                  *)
(***************************************************************************)
Annotation(id, scope, district, axis, chartTags) ==
    [id |-> id, scope |-> scope, district |-> district, axis |-> axis, charts |-> chartTags]

AnnotationPool ==
    << Annotation("covid", "statewide", null, "year", {"proficiency", "graduation"}),
       Annotation("a-rezoning", "district", "A", "year", {"proficiency"}),
       Annotation("b-merger", "district", "B", "year", {"proficiency", "levy"}),
       Annotation("tax-cap", "statewide", null, "fiscal_year", {"levy"}),
       Annotation("a-budget", "district", "A", "fiscal_year", {"levy", "proficiency"}),
       Annotation("regents", "statewide", null, "year", {"graduation"}) >>

AnnotationIds == {AnnotationPool[i].id : i \in 1..Len(AnnotationPool)}

\* config/annotations.json: up to MaxAnnotations entries of the pool, in
\* the order of the pool
AnnotationConfigs ==
    {SelectSeq(AnnotationPool, LAMBDA a : a.id \in ids) :
        ids \in {S \in SUBSET AnnotationIds : Cardinality(S) <= MaxAnnotations}}

\* the charts annotations are attached to: type tag and x field
TaggedCharts ==
    {[tag |-> "proficiency", xAxis |-> [field |-> "year"]],
     [tag |-> "levy", xAxis |-> [field |-> "fiscal_year"]]}

\* variant of annotationMatches that ignores the district of a scoped annotation
annotationMatchesAnyDistrict(chart, district, a) ==
    /\ chart.tag \in a.charts
    /\ a.scope \in {"statewide", "district"}
    /\ a.axis = chart.xAxis.field

\* the filter of attachAnnotations
annotationMatches(chart, district, a) ==
    /\ chart.tag \in a.charts
    /\ (a.scope = "statewide" \/ (a.scope = "district" /\ a.district = district))
    /\ a.axis = chart.xAxis.field

\* attachAnnotations(chartSpec, allAnnotations) while building a district
attachAnnotations(chart, district, allAnnotations) ==
    SelectSeq(allAnnotations, LAMBDA a : annotationMatches(chart, district, a))

\* a chart of a district spec is built
attachAnnotationsCall ==
    /\ call.fn = "none"
    /\ \E chart \in TaggedCharts, district \in {"A", "B"}, all \in AnnotationConfigs :
          call' = [fn |-> "attachAnnotations", spec |-> SampleLine, outcome |-> "ok",
                   xKind |-> "", before |-> 0, chart |-> chart, district |-> district,
                   allAnnotations |-> all,
                   annotations |-> attachAnnotations(chart, district, all)]
    /\ UNCHANGED svg
    /\ UNCHANGED appVars

InitAnnotations ==
    /\ AppInit
    /\ svg = <<>>
    /\ call = NoCall

NextAnnotations == attachAnnotationsCall

SpecAnnotations == InitAnnotations /\ [][NextAnnotations]_vars

(***************************************************************************)
(* SpecLegend: the legend toggles.  drawLegend in this version of the      *)
(* client draws a static legend; the toggles are modelled from their       *)
(* contract: hiddenSeries belongs to the renderer instance, a click on a   *)
(* legend entry flips the membership of its series, and rendering a spec   *)
(* resets it.  The record call holds the instance: the series, the hidden  *)
(* ones, the opacity of each entry, the entry clicked last, how many       *)
(* times in a row, and the state before those clicks.                      *)
(***************************************************************************)
\* the opacity of a legend entry and its series
opacityOf(hidden) == IF hidden THEN "dimmed" ELSE "full"

legendState(n, hiddenSeries) ==
    [n |-> n, hiddenSeries |-> hiddenSeries,
     opacity |-> [i \in 1..n |-> opacityOf(i \in hiddenSeries)]]

\* variant of toggleSeries that hides a series and never shows it again
toggleSeriesHiding(hiddenSeries, i) == hiddenSeries \cup {i}

\* click on legend entry i
toggleSeries(hiddenSeries, i) ==
    IF i \in hiddenSeries THEN hiddenSeries \ {i} ELSE hiddenSeries \cup {i}

\* a chart specification with n series is rendered into the instance
legendRender ==
    /\ call.fn \in {"none", "legend"}
    /\ \E n \in 1..MaxSeries :
          call' = [fn |-> "legend", spec |-> SampleLine, outcome |-> "ok", xKind |-> "",
                   before |-> 0, now |-> legendState(n, {}), clicked |-> 0, clicks |-> 0,
                   origin |-> legendState(n, {})]
    /\ UNCHANGED svg
    /\ UNCHANGED appVars

\* legend entry i is clicked
legendClick ==
    /\ call.fn = "legend"
    /\ \E i \in 1..call.now.n :
          call' = [call EXCEPT
                     !.now = legendState(call.now.n, toggleSeries(call.now.hiddenSeries, i)),
                     !.clicked = i,
                     !.clicks = IF call.clicked = i /\ call.clicks = 1 THEN 2 ELSE 1,
                     !.origin = IF call.clicked = i /\ call.clicks = 1
                                THEN call.origin ELSE call.now]
    /\ UNCHANGED svg
    /\ UNCHANGED appVars

InitLegend ==
    /\ AppInit
    /\ svg = <<>>
    /\ call = NoCall

NextLegend == legendRender \/ legendClick

SpecLegend == InitLegend /\ [][NextLegend]_vars

(***************************************************************************)
(* SpecSeries: renderLineChart on a flat table whose rows belong to        *)
(* different series, selected by the filters of the series.                *)
(***************************************************************************)
SeriesRows ==
    {[year |-> x, value |-> v, subject |-> s] :
        x \in {Num(1), Num(3), Str(<<"1">>)},
        v \in {Num(20), Num(50)},
        s \in {Str(<<"e", "l", "a">>), Str(<<"m", "a", "t", "h">>)}}

SeriesData == UNION {[1..n -> SeriesRows] : n \in 1..MaxRows}

FilteredSeries(name, pairs) == [name |-> name, field |-> "value", filter |-> Some(pairs)]

Ela == FilteredSeries(<<"ELA">>, {<<"subject", Str(<<"e", "l", "a">>)>>})
Math == FilteredSeries(<<"Math">>, {<<"subject", Str(<<"m", "a", "t", "h">>)>>})
Science == FilteredSeries(<<"Science">>, {<<"subject", Str(<<"s", "c", "i">>)>>})
ElaOfYear ==
    FilteredSeries(<<"ELA 1">>, {<<"subject", Str(<<"e", "l", "a">>)>>,
                                 <<"year", Str(<<"1">>)>>})

SeriesLists ==
    {<<ValueSeries>>, <<Ela, Math>>, <<Science, Math>>, <<ElaOfYear, ValueSeries>>}

SeriesSpecs ==
    {ChartSpec("line", Some(d), [label |-> <<"Percent">>, min |-> None(0), max |-> None(0)],
               Some(se)) : d \in SeriesData, se \in SeriesLists}

NextSeries == RenderLineOf(SeriesSpecs)

SpecSeries == InitRender /\ [][NextSeries]_vars

(***************************************************************************)
(* SpecTicks: renderLineChart on two rows whose x values are the ends of   *)
(* an integer x domain.                                                    *)
(***************************************************************************)
TickDomains ==
    {<<Num(lo), Num(lo + span)>> : lo \in (0 - 4)..4, span \in 0..MaxSpan}
        \cup {<<BigNum(0), BigNum(0)>>, <<BigNum(0), BigNum(1)>>, <<BigNum(1), BigNum(2)>>}

TickSpecs ==
    {ChartSpec("line", Some(<<[year |-> dm[2], value |-> Num(50)],
                              [year |-> dm[1], value |-> Num(50)]>>),
               SampleLine.yAxis, SampleLine.series) : dm \in TickDomains}

NextTicks == RenderLineOf(TickSpecs)

SpecTicks == InitRender /\ [][NextTicks]_vars

(***************************************************************************)
(* Properties of the controller, checked under Spec.                       *)
(***************************************************************************)

\* C1: once no spec load is pending, the chart area holds the content of
\* the most recent user action (its charts, its error or the cleared
\* placeholder), never the content written for an earlier action.
C1_LatestActionShown ==
    (pending = {} /\ nAct > 0) => charts.by = nAct

\* C2: the district selector is populated, the handlers are wired and a
\* spec load is started only after spec/index.json has been fetched and
\* parsed successfully.
C2_IndexLoadedFirst ==
    /\ (districtSelect.populated \/ districtSelect.options # <<>>) => indexOutcome = "ok"
    /\ listeners => indexOutcome = "ok"
    /\ (pending # {} \/ nAct > 0 \/ lastLoad # NoLoad) => indexOutcome = "ok"

C2_Witness ==
    /\ indexOutcome = "ok"
    /\ Len(districtSelect.options) = Len(IndexDistricts)
    /\ listeners
    /\ pending # {}

\* C3: when the load of the district index fails (rejected fetch, non-OK
\* response or unparsable body), init ends in its handler: the chart area
\* holds the initialization error, the sources load is never started, no
\* handler is wired, and so no user action or spec load ever follows.
C3_IndexFailureIsFatal ==
    indexOutcome \in FetchFailures =>
        /\ pc = "failed"
        /\ charts = showError("Failed to load dashboard data. Please try again later.", 0, "")
        /\ sourcesOutcome = "none"
        /\ sourcesList = <<>>
        /\ ~listeners
        /\ ~districtSelect.populated
        /\ nAct = 0 /\ pending = {} /\ lastLoad = NoLoad

C3_Witness ==
    /\ indexOutcome = "notok"
    /\ pc = "failed"
    /\ charts.kind = "error"

\* C4: however the sources load ends (rejected fetch, non-OK response,
\* unparsable body, or an exception while the list is displayed), init
\* wires the handlers, the district selector stays populated with the
\* districts of the index, and the chart area never shows the
\* initialization error.
C4_SourcesLoadBestEffort ==
    sourcesOutcome # "none" =>
        /\ pc = "done"
        /\ listeners
        /\ districtSelect.populated
        /\ districts = IndexDistricts
        /\ charts.msg # "Failed to load dashboard data. Please try again later."
        /\ (nAct = 0 => charts = InitialCharts)

C4_Witness ==
    /\ sourcesOutcome = "displayThrows"
    /\ listeners
    /\ Len(districtSelect.options) = Len(IndexDistricts)
    /\ charts = InitialCharts

\* C5: when the chart area holds what renderCharts made of a fetched spec,
\* it is not an error message, and every chart of spec.charts that renders
\* without raising has its wrapper in the chart area, whether or not
\* another chart of the same spec raises.
C5_ChartErrorsContained ==
    (lastLoad.ok /\ charts.by = lastLoad.id /\ lastLoad.spec.charts.has) =>
        /\ charts.kind # "error"
        /\ \A i \in 1..Len(lastLoad.spec.charts.val) :
              renderChart(lastLoad.spec.charts.val[i]).outcome = "ok" =>
                  \E j \in 1..Len(charts.wrappers) :
                      charts.wrappers[j] =
                          [title |-> lastLoad.spec.charts.val[i].title,
                           svg |-> renderChart(lastLoad.spec.charts.val[i]).svg]

\* the index districts of the region chosen in #bocesFilter, all of them
\* when the filter is cleared
DistrictsOf(region) ==
    IF region = null THEN districts
    ELSE SelectSeq(districts, LAMBDA d : d.boces = region)

\* C16: every step that changes the value of #bocesFilter leaves in
\* #districtSelect the placeholder option, selected, followed by one option
\* for each index district of the chosen region, in index order (all index
\* districts when the filter is cleared), and leaves the "Select a
\* district" placeholder in the chart area.
C16_FilterRepopulatesSelector ==
    [][bocesFilter'.value # bocesFilter.value =>
         /\ districtSelect'.populated
         /\ districtSelect'.value = ""
         /\ Len(districtSelect'.options) = Len(DistrictsOf(bocesFilter'.value))
         /\ \A i \in 1..Len(districtSelect'.options) :
               /\ districtSelect'.options[i].value = DistrictsOf(bocesFilter'.value)[i].spec_file
               /\ districtSelect'.options[i].name = DistrictsOf(bocesFilter'.value)[i].name
         /\ charts'.kind = "placeholder"
         /\ charts'.msg = "Select a district to view data."
         /\ charts'.wrappers = <<>>]_vars

\* the filter was set to a region after charts had been shown
C16_Witness ==
    /\ bocesFilter.value = CapitalRegion
    /\ Len(districtSelect.options) = 2
    /\ districtSelect.options[1].name = "Albany"
    /\ districtSelect.options[2].name = "Colonie"
    /\ charts.kind = "placeholder"
    /\ lastLoad.ok

\* the fetch() calls issued so far
Issued == fetches.index + fetches.sources + fetches.spec

\* C17: no step issues more than one fetch; spec/index.json is fetched only
\* by the first step of init and data/sources.json only by the step in
\* which the index arrives, each at most once; a spec is fetched only in a
\* step that handles a user action.  So the step in which a fetch fails
\* (and every other step that is not a user action) issues no fetch.
C17_NothingRetried ==
    [][/\ Issued' <= Issued + 1
       /\ fetches'.index # fetches.index => (pc = "start" /\ fetches.index = 0)
       /\ fetches'.sources # fetches.sources =>
             (pc = "loadDistricts" /\ indexOutcome' = "ok" /\ fetches.sources = 0)
       /\ fetches'.spec # fetches.spec => nAct' = nAct + 1]_vars

\* a spec fetch has failed, after one fetch of the index, one of the sources
\* and one spec fetch for each of the user actions
C17_Witness ==
    /\ fetches = [index |-> 1, sources |-> 1, spec |-> MaxActions]
    /\ nAct = MaxActions
    /\ lastLoad.id > 0 /\ ~lastLoad.ok
    /\ pending = {}

\* C22: whenever #showClusterBtn is enabled, currentBoces is set and the
\* button reads "Compare <currentBoces> Districts", so that a click on it
\* requests the cluster the button names.
C22_EnabledButtonNamesCurrentBoces ==
    ~showClusterBtn.disabled =>
        /\ currentBoces # null
        /\ showClusterBtn.textContent = CompareText(currentBoces)

\* the button stays enabled for the region of the district selected before
\* a district without boces
C22_Witness ==
    /\ ~showClusterBtn.disabled
    /\ districtSelect.value = "yonkers.json"
    /\ currentBoces = CapitalRegion
    /\ showClusterBtn.textContent = CompareText(CapitalRegion)

\* the index district selected in #districtSelect
SelectedDistrict ==
    SelectSeq(districts, LAMBDA d : d.spec_file = districtSelect.value)

\* C23: whenever a district is selected and #showClusterBtn is enabled,
\* currentBoces is the boces of the selected district.
C23_CurrentBocesOfSelectedDistrict ==
    (districtSelect.value # "" /\ ~showClusterBtn.disabled) =>
        /\ SelectedDistrict # <<>>
        /\ currentBoces = SelectedDistrict[1].boces

\* C24: #showDistrictBtn is visible exactly when clusterView is true.
C24_ShowDistrictBtnIffClusterView ==
    (showDistrictBtn # "none") <=> clusterView

\* a cluster spec has loaded: the view is the cluster view and the button shows
C24_Witness ==
    /\ clusterView
    /\ showDistrictBtn = "inline-block"
    /\ lastLoad.ok
    /\ charts.src = "cluster"

\* C25: while clusterView is true the chart area holds what renderCharts
\* made of a cluster spec.
C25_ClusterViewShowsCluster ==
    clusterView => (charts.src = "cluster" /\ charts.kind \in {"charts", "nocharts"})

\* the index has no boces entry of that name
NoBocesEntry(name) == \A i \in 1..Len(boces) : boces[i].name # name

\* C26: a click on #showClusterBtn for a region without an entry in the
\* index's boces list shows 'BOCES cluster data not found.', issues no
\* fetch and leaves clusterView and #showDistrictBtn as they are; the
\* failure of a cluster fetch shows 'Failed to load BOCES cluster data.'
\* and leaves clusterView as it is.
C26_ClusterErrorsLeaveView ==
    [][/\ (showClusterBtnClick /\ currentBoces # null /\ NoBocesEntry(currentBoces)) =>
             /\ charts'.kind = "error"
             /\ charts'.msg = "BOCES cluster data not found."
             /\ fetches' = fetches
             /\ pending' = pending
             /\ clusterView' = clusterView
             /\ showDistrictBtn' = showDistrictBtn
       /\ (\E p \in pending : clusterSpecFailed(p)) =>
             /\ charts'.kind = "error"
             /\ charts'.msg = "Failed to load BOCES cluster data."
             /\ fetches' = fetches
             /\ clusterView' = clusterView]_vars

\* the cluster of a region without an index entry was requested
C26_Witness ==
    /\ charts.kind = "error"
    /\ charts.msg = "BOCES cluster data not found."
    /\ currentBoces = Questar
    /\ NoBocesEntry(Questar)
    /\ fetches.spec = 0
    /\ ~clusterView

(***************************************************************************)
(* Properties of the renderer, checked under SpecRender.                   *)
(***************************************************************************)
\* the only child renderNoData leaves in the <svg> element
Placeholder ==
    TextEl("axis-text", "middle", Fin(width \div 2), Fin(height \div 2),
           TextStr(NoDataMessage))

\* the children of the <svg> element with the given class
ByClass(class) == SelectSeq(svg, LAMBDA e : e.class = class)

\* the tick labels under the x axis, left to right as appended
XTickLabels ==
    SelectSeq(svg, LAMBDA e : /\ e.tag = "text" /\ e.class = "axis-text"
                              /\ e.anchor = "middle"
                              /\ e.y = Fin(height - marginBottom + 20))

\* the x column of the spec of the last call
CallX == xValuesOf(call.spec)

LineCallWithData ==
    /\ call.fn = "renderLineChart"
    /\ call.spec.data.has
    /\ Len(call.spec.data.val) > 0

\* C6: a call of renderLineChart or renderBarChart on a spec without data
\* or without series returns normally and leaves the placeholder as the
\* only child of the <svg> element.
C6_MalformedSpecShowsPlaceholder ==
    (call.fn # "none" /\ (~call.spec.data.has \/ ~call.spec.series.has)) =>
        /\ call.outcome = "ok"
        /\ svg = <<Placeholder>>

\* C7: after a call of renderLineChart or renderBarChart on a spec whose
\* data array is empty, the <svg> element has exactly one child, the text
\* "No data available", whatever it held before the call.
C7_EmptyDataShowsOnlyPlaceholder ==
    (call.fn # "none" /\ call.spec.data.has /\ call.spec.data.val = <<>>) =>
        /\ call.outcome = "ok"
        /\ Len(svg) = 1
        /\ svg[1].tag = "text"
        /\ svg[1].text = TextStr(NoDataMessage)
        /\ svg[1].x = Fin(width \div 2) /\ svg[1].y = Fin(height \div 2)

C7_Witness ==
    /\ call.fn = "renderBarChart"
    /\ call.spec.data.has /\ call.spec.data.val = <<>>
    /\ call.before > 1
    /\ svg = <<Placeholder>>

\* the x column of the last call holds finite numbers only, all equal
DegenerateX ==
    /\ LineCallWithData
    /\ \A i \in 1..Len(CallX) : IsFinite(CallX[i]) /\ CallX[i] = CallX[1]

\* the y axis of the last call has min = max
DegenerateY ==
    /\ LineCallWithData
    /\ call.spec.yAxis.min.has /\ call.spec.yAxis.max.has
    /\ call.spec.yAxis.min.val = call.spec.yAxis.max.val

\* C8: when the x column of a line chart holds finite numbers with
\* min = max, the call ends, the x tick, every vertex of the path and every
\* point marker are at x = margin.left, and every row has its marker; when
\* yMin = yMax the y coordinate of a value v is finite, namely
\* height - margin.bottom - (v - yMin) * chartHeight (the range counts as 1).
C8_DegenerateRangeGuarded ==
    /\ DegenerateX =>
          /\ call.outcome # "hang"
          /\ Len(XTickLabels) = 1
          /\ \A i \in 1..Len(XTickLabels) : XTickLabels[i].x = Fin(marginLeft)
          /\ \A i \in 1..Len(ByClass("data-point")) :
                ByClass("data-point")[i].x = Fin(marginLeft)
          /\ \A i \in 1..Len(ByClass("data-line")) :
                \A j \in 1..Len(ByClass("data-line")[i].pts) :
                    ByClass("data-line")[i].pts[j].x = Fin(marginLeft)
          /\ call.outcome = "ok" => Len(ByClass("data-point")) = Len(call.spec.data.val)
    /\ (DegenerateY /\ call.outcome = "ok") =>
          /\ Len(ByClass("data-point")) = Len(call.spec.data.val)
          /\ {ByClass("data-point")[i].y : i \in 1..Len(ByClass("data-point"))}
               = {Fin(height - marginBottom
                      - (ToNumber(call.spec.data.val[i].value).n
                         - call.spec.yAxis.min.val) * chartHeight) :
                     i \in 1..Len(call.spec.data.val)}

C8_Witness ==
    /\ DegenerateX /\ DegenerateY
    /\ call.outcome = "ok"
    /\ Len(call.spec.data.val) = 2
    /\ CallX[1] = Num(3)
    /\ Len(ByClass("data-point")) = 2
    /\ ByClass("data-point")[2].x = Fin(marginLeft)
    /\ ByClass("data-point")[2].y.k = "fin"

\* C9: renderLineChart takes the numeric branch exactly when every value
\* of the x column is a finite number, and the categorical branch otherwise.
C9_NumericIffAllFinite ==
    LineCallWithData =>
        (call.xKind = "numeric" <=> \A i \in 1..Len(CallX) : IsFinite(CallX[i]))

\* the position of category i (from 0) of n
CategoryX(i, n) == XAdd(Fin(marginLeft), Frac(i * chartWidth, n - 1))

\* C10: in the categorical branch the x tick labels are the distinct x
\* values in ascending case-sensitive ordinal order, label i of n (from 0)
\* is at margin.left + i/(n-1) * chartWidth, and every point marker is at
\* the position of the category of its row.
C10_CategoriesOrdinalEvenlySpaced ==
    (LineCallWithData /\ call.xKind = "categorical") =>
        /\ {XTickLabels[i].text.str : i \in 1..Len(XTickLabels)}
             = {StringOf(CallX[i]) : i \in 1..Len(CallX)}
        /\ \A i \in 1..Len(XTickLabels) : \A j \in (i + 1)..Len(XTickLabels) :
              OrdinalCompare(XTickLabels[i].text.str, XTickLabels[j].text.str) <= 0
        /\ Len(XTickLabels) > 1 =>
              \A i \in 1..Len(XTickLabels) :
                  XTickLabels[i].x = CategoryX(i - 1, Len(XTickLabels))
        /\ call.outcome = "ok" =>
              {ByClass("data-point")[i].x : i \in 1..Len(ByClass("data-point"))}
                = {XTickLabels[i].x : i \in 1..Len(XTickLabels)}

(***************************************************************************)
(* Properties of the categorical scale, checked under SpecScale.           *)
(***************************************************************************)
\* the category list of the last lookup
Categories == uniqueXValues(xValuesOf(call.spec))

\* C11: a categorical lookup always yields the position of one of the
\* categories, and a value that is not in the category list, neither as it
\* is nor in its string form, yields the position of category 0, which is
\* margin.left.
C11_UnseenValueMapsToFirstCategory ==
    call.fn = "xScale" =>
        /\ call.outcome = "ok"
        /\ \E i \in 1..Len(Categories) :
              call.pos = (IF Len(Categories) = 1 THEN Fin(marginLeft)
                          ELSE CategoryX(i - 1, Len(Categories)))
        /\ (call.value \notin Range(Categories)
            /\ Str(StringOf(call.value)) \notin Range(Categories))
              => call.pos = Fin(marginLeft)

C11_Witness ==
    /\ call.fn = "xScale"
    /\ Len(Categories) = 2
    /\ call.value = Str(<<"z">>)
    /\ call.value \notin Range(Categories)
    /\ call.pos = Fin(marginLeft)

\* C27: a value that occurs in the x column of a categorical chart is
\* mapped to the position of its own tick label, the one at its index in
\* the sorted distinct list.
C27_OccurringValueAtOwnTick ==
    (call.fn = "xScale" /\ call.value \in Range(Categories)) =>
        call.pos = (IF Len(Categories) = 1 THEN Fin(marginLeft)
                    ELSE CategoryX(IndexOf(Categories, call.value), Len(Categories)))

(***************************************************************************)
(* Properties of the y domain, the grid and the bars, checked under        *)
(* SpecDomain.                                                             *)
(***************************************************************************)
\* the tick labels left of the y axis, bottom to top as appended
YTickLabels ==
    SelectSeq(svg, LAMBDA e : e.tag = "text" /\ e.class = "axis-text" /\ e.anchor = "end")

\* the value column of the spec of the last call, and whether it holds
\* finite numbers only
CallValues == [i \in 1..Len(call.spec.data.val) |-> call.spec.data.val[i].value]
AllValuesNumbers == \A i \in 1..Len(CallValues) : IsFinite(CallValues[i])

Smallest(S) == CHOOSE m \in S : \A n \in S : m <= n
Largest(S) == CHOOSE m \in S : \A n \in S : n <= m

\* the y domain the axis shows: the values of the lowest and the highest label
ShownYMin == YTickLabels[1].text.num
ShownYMax == YTickLabels[Len(YTickLabels)].text.num

\* C12: the y domain is yAxis.min / yAxis.max where the spec gives them
\* (an explicit 0 included); where it does not, a line chart uses 0 and 100
\* and a bar chart whose values are numbers uses min(0, smallest value) and
\* the largest value.
C12_YDomainChoice ==
    call.fn \in {"renderLineChart", "renderBarChart"} =>
        /\ Len(YTickLabels) = 6
        /\ call.spec.yAxis.min.has => ShownYMin = Fin(call.spec.yAxis.min.val)
        /\ call.spec.yAxis.max.has => ShownYMax = Fin(call.spec.yAxis.max.val)
        /\ (call.fn = "renderLineChart" /\ ~call.spec.yAxis.min.has) => ShownYMin = Fin(0)
        /\ (call.fn = "renderLineChart" /\ ~call.spec.yAxis.max.has) => ShownYMax = Fin(100)
        /\ (call.fn = "renderBarChart" /\ AllValuesNumbers /\ ~call.spec.yAxis.min.has) =>
              ShownYMin = Fin(Smallest({0} \cup {CallValues[i].n : i \in 1..Len(CallValues)}))
        /\ (call.fn = "renderBarChart" /\ AllValuesNumbers /\ ~call.spec.yAxis.max.has) =>
              ShownYMax = Fin(Largest({CallValues[i].n : i \in 1..Len(CallValues)}))

C12_Witness ==
    /\ call.fn = "renderBarChart"
    /\ call.spec.yAxis.min = Some(0) /\ ~call.spec.yAxis.max.has
    /\ CallValues = <<Num(0 - 40), Num(30)>>
    /\ ShownYMin = Fin(0)
    /\ ShownYMax = Fin(30)

\* the position of the value 0 on the y axis shown
Baseline == yScale(ShownYMin, XSub(ShownYMax, ShownYMin), Num(0))

\* a bar chart drawn to the end with the default y domain
DefaultDomainBars ==
    /\ call.fn = "renderBarChart"
    /\ call.outcome = "ok"
    /\ ~call.spec.yAxis.min.has /\ ~call.spec.yAxis.max.has

\* C13: in a bar chart with the default y domain the baseline yScale(0)
\* lies between the top margin and the x axis, every row has its bar, a
\* bar of a negative value has its top edge on the baseline and its bottom
\* edge at yScale(value) below it, and a bar of a non-negative value has its
\* bottom edge on the baseline.
C13_NegativeBarsBelowBaseline ==
    DefaultDomainBars =>
        /\ XLe(Fin(marginTop), Baseline) /\ XLe(Baseline, Fin(height - marginBottom))
        /\ Len(ByClass("data-bar")) = Len(CallValues)
        /\ \A i \in 1..Len(ByClass("data-bar")) :
              IF CallValues[i].n < 0
              THEN /\ ByClass("data-bar")[i].y = Baseline
                   /\ XLt(Baseline, XAdd(ByClass("data-bar")[i].y, ByClass("data-bar")[i].y2))
                   /\ XAdd(ByClass("data-bar")[i].y, ByClass("data-bar")[i].y2)
                        = yScale(ShownYMin, XSub(ShownYMax, ShownYMin), CallValues[i])
              ELSE XAdd(ByClass("data-bar")[i].y, ByClass("data-bar")[i].y2) = Baseline

\* the last call was given a non-empty data table
CallWithData ==
    /\ call.fn \in {"renderLineChart", "renderBarChart"}
    /\ call.spec.data.has
    /\ Len(call.spec.data.val) > 0

\* C14: after rendering a chart with a non-empty data table the <svg>
\* element holds exactly 6 horizontal grid lines, at margin.top + i/5 of
\* the plot height (i = 0..5) across the plot width, and exactly 6 y tick
\* labels, label i being placed at i/5 of the plot height above the x axis
\* (5 px lower, for the text baseline) and showing
\* yMin + (yMax - yMin) * i/5.
C14_SixGridLinesAndYTicks ==
    CallWithData =>
        /\ Len(ByClass("grid-line")) = 6
        /\ \A j \in 1..Len(ByClass("grid-line")) :
              /\ ByClass("grid-line")[j].tag = "line"
              /\ ByClass("grid-line")[j].y = XAdd(Fin(marginTop), Frac(chartHeight * (j - 1), 5))
              /\ ByClass("grid-line")[j].y2 = ByClass("grid-line")[j].y
              /\ ByClass("grid-line")[j].x = Fin(marginLeft)
              /\ ByClass("grid-line")[j].x2 = Fin(width - marginRight)
        /\ Len(YTickLabels) = 6
        /\ \A j \in 1..Len(YTickLabels) :
              /\ YTickLabels[j].y
                   = XAdd(XSub(Fin(height - marginBottom), Frac(chartHeight * (j - 1), 5)), Fin(5))
              /\ YTickLabels[j].text.num
                   = XAdd(ShownYMin, XDiv(XMul(XSub(ShownYMax, ShownYMin), Fin(j - 1)), Fin(5)))

(***************************************************************************)
(* Properties of the provenance list, checked under SpecSources.           *)
(***************************************************************************)
\* the entries of the last displaySources call with the given status
WithStatus(status) == SelectSeq(call.sources, LAMBDA x : x.status = status)

\* the elements of #sourcesList of the given kind
ListItems(kind) == SelectSeq(sourcesList, LAMBDA e : e.kind = kind)

\* C15: after displaySources the list shows one item for each of the first
\* 10 entries with status "success", in input order; one "... and N more"
\* line with N = successes - 10 exactly when there are more than 10
\* successes; and one warning carrying the number of failed entries exactly
\* when at least one entry has status "failed".
C15_SourcesCappedAndFailuresCounted ==
    (call.fn = "displaySources" /\ Len(call.sources) > 0) =>
        /\ Len(ListItems("item")) = Smallest({10, Len(WithStatus("success"))})
        /\ \A i \in 1..Len(ListItems("item")) :
              ListItems("item")[i].url = WithStatus("success")[i].url.val
        /\ Len(ListItems("more")) = (IF Len(WithStatus("success")) > 10 THEN 1 ELSE 0)
        /\ \A i \in 1..Len(ListItems("more")) :
              ListItems("more")[i].n = Len(WithStatus("success")) - 10
        /\ Len(ListItems("warning")) = (IF Len(WithStatus("failed")) > 0 THEN 1 ELSE 0)
        /\ \A i \in 1..Len(ListItems("warning")) :
              ListItems("warning")[i].n = Len(WithStatus("failed"))
        /\ Len(sourcesList)
             = Len(ListItems("item")) + Len(ListItems("more")) + Len(ListItems("warning"))

C15_Witness ==
    /\ call.fn = "displaySources"
    /\ Len(WithStatus("success")) = 11
    /\ Len(WithStatus("failed")) = 1
    /\ Len(ListItems("item")) = 10
    /\ ListItems("more") = <<[kind |-> "more", url |-> "", n |-> 1]>>
    /\ ListItems("warning") = <<[kind |-> "warning", url |-> "", n |-> 1]>>

(***************************************************************************)
(* Properties of the benchmark series, checked under SpecBenchmark.        *)
(***************************************************************************)
\* the non-null values of the metric the member districts have at period p,
\* as (district, value) pairs
MemberValues(p) ==
    {<<r.district, r.value.n>> : r \in {x \in call.rows :
         /\ x.district \in call.members /\ x.metric = call.metric
         /\ x.period = p /\ x.value.t = "number"}}

RECURSIVE Total(_)
Total(pairs) ==
    IF pairs = {} THEN 0
    ELSE LET q == CHOOSE x \in pairs : TRUE IN q[2] + Total(pairs \ {q})

\* the benchmark points at period p
PointsAt(p) == SelectSeq(call.points, LAMBDA pt : pt.period = p)

\* C18: at every period the benchmark series has exactly one point when a
\* member district has a non-null value there, and count * value of that
\* point equals the sum of the non-null member values; it has no point at a
\* period where every member district is null.
C18_BenchmarkIsMeanOfNonNull ==
    call.fn = "benchmarkSeries" =>
        \A p \in Periods :
            IF MemberValues(p) = {}
            THEN PointsAt(p) = <<>>
            ELSE /\ Len(PointsAt(p)) = 1
                 /\ XMul(PointsAt(p)[1].value, Fin(Cardinality(MemberValues(p))))
                      = Fin(Total(MemberValues(p)))

\* A = 50 and B = 70 at the first period give 60; both null at the second
\* period give no point
C18_Witness ==
    /\ call.fn = "benchmarkSeries"
    /\ call.members = {"A", "B"}
    /\ MemberValues(FirstPeriod) = {<<"A", 50>>, <<"B", 70>>}
    /\ MemberValues(FirstPeriod + 1) = {}
    /\ call.points = <<[period |-> FirstPeriod, value |-> Fin(60)]>>

(***************************************************************************)
(* Properties of the annotation placer, checked under SpecAnnotations.     *)
(***************************************************************************)
\* C19: every annotation attached to a chart comes from the configuration,
\* lists the chart's type tag in its charts, has the chart's x field as its
\* axis, and is scoped statewide or to the district being built; an
\* annotation scoped to another district is never attached.
C19_AnnotationsFiltered ==
    call.fn = "attachAnnotations" =>
        \A i \in 1..Len(call.annotations) :
            /\ call.annotations[i] \in Range(call.allAnnotations)
            /\ call.chart.tag \in call.annotations[i].charts
            /\ call.annotations[i].axis = call.chart.xAxis.field
            /\ call.annotations[i].scope \in {"statewide", "district"}
            /\ call.annotations[i].scope = "district" =>
                  call.annotations[i].district = call.district

\* district B's proficiency chart is built from a configuration holding an
\* annotation of district A whose charts list matches
C19_Witness ==
    /\ call.fn = "attachAnnotations"
    /\ call.district = "B"
    /\ call.chart.tag = "proficiency"
    /\ \E i \in 1..Len(call.allAnnotations) :
          /\ call.allAnnotations[i].id = "a-rezoning"
          /\ call.allAnnotations[i].district = "A"
          /\ "proficiency" \in call.allAnnotations[i].charts
    /\ Len(call.annotations) = 1
    /\ call.annotations[1].id = "covid"

MatchingRows(s) ==
    SelectSeq(call.spec.data.val, LAMBDA d :
        ~s.filter.has
        \/ \A kv \in s.filter.val : kv[1] \in DOMAIN d /\ d[kv[1]] = kv[2])

\* the series that have a matching row, in the order of the spec
DrawnSeries == SelectSeq(call.spec.series.val, LAMBDA s : MatchingRows(s) # <<>>)

\* the paths and point markers in the <svg> element, in document order
DataEls == SelectSeq(svg, LAMBDA e : e.class \in {"data-line", "data-point"})

\* the number of paths and markers of the first k series drawn
RECURSIVE ElsBefore(_)
ElsBefore(k) ==
    IF k = 0 THEN 0 ELSE ElsBefore(k - 1) + 1 + Len(MatchingRows(DrawnSeries[k]))

\* where a row of a series is drawn
RowPoint(s, d) ==
    [x |-> xScale(lineScales(call.spec), Get(d, call.spec.xAxis.field)),
     y |-> yScale(lineScales(call.spec).yMin, lineScales(call.spec).yRange, Get(d, s.field))]

RowPoints(s) == [i \in 1..Len(MatchingRows(s)) |-> RowPoint(s, MatchingRows(s)[i])]

Occurrences(seq, e) == Len(SelectSeq(seq, LAMBDA x : x = e))

\* the path at position at of DataEls and the markers after it draw the
\* given points: as many vertices as points, each point as often as it
\* occurs, from left to right, and one marker on each vertex
DrawsPoints(at, points) ==
    /\ DataEls[at].class = "data-line"
    /\ Len(DataEls[at].pts) = Len(points)
    /\ \A i \in 1..Len(points) :
          Occurrences(DataEls[at].pts, points[i]) = Occurrences(points, points[i])
    /\ \A i \in 1..(Len(points) - 1) : XLe(DataEls[at].pts[i].x, DataEls[at].pts[i + 1].x)
    /\ \A i \in 1..Len(points) :
          /\ DataEls[at + i].class = "data-point"
          /\ DataEls[at + i].x = DataEls[at].pts[i].x
          /\ DataEls[at + i].y = DataEls[at].pts[i].y

\* C21: a line chart holds, for each series with a matching row and in the
\* order of the series, one path whose vertices are the matching rows of
\* the series from left to right, followed by one point marker per matching
\* row; a series without a matching row adds no path and no marker.
C21_SeriesFilteredAtDrawTime ==
    (call.fn = "renderLineChart" /\ CallWithData /\ call.spec.series.has) =>
        /\ call.outcome = "ok"
        /\ Len(DataEls) = ElsBefore(Len(DrawnSeries))
        /\ \A k \in 1..Len(DrawnSeries) :
              DrawsPoints(ElsBefore(k - 1) + 1, RowPoints(DrawnSeries[k]))

\* two rows of Math given in descending year order next to a series without
\* a matching row
C21_Witness ==
    /\ call.fn = "renderLineChart"
    /\ call.spec.series.val = <<Science, Math>>
    /\ Len(call.spec.data.val) = 2
    /\ call.spec.data.val[1].year = Num(3) /\ call.spec.data.val[2].year = Num(1)
    /\ Len(MatchingRows(Math)) = 2
    /\ Len(ByClass("data-line")) = 1
    /\ Len(ByClass("data-point")) = 2
    /\ XLt(ByClass("data-point")[1].x, ByClass("data-point")[2].x)

(***************************************************************************)
(* Properties of rows without a value, checked under SpecDomain.           *)
(***************************************************************************)
\* the vertices of all paths of the chart, and those among a sequence of
\* markers or vertices that have a position on the y axis
PathVertices ==
    IF ByClass("data-line") = <<>> THEN <<>> ELSE ByClass("data-line")[1].pts

Placed(points) == SelectSeq(points, LAMBDA p : p.y.k = "fin")

\* C28: a line chart has a point marker and a path vertex at a y position
\* only for the rows that have a value of the series field: a row whose
\* value is null is not drawn at the position of 0.
C28_NullValueNotDrawn ==
    (call.fn = "renderLineChart" /\ call.outcome = "ok") =>
        /\ Len(Placed(ByClass("data-point")))
             = Len(SelectSeq(CallValues, LAMBDA v : v.t = "number"))
        /\ Len(Placed(PathVertices))
             = Len(SelectSeq(CallValues, LAMBDA v : v.t = "number"))

(***************************************************************************)
(* Properties of the x tick loop, checked under SpecTicks.                 *)
(***************************************************************************)
\* the ends of the x domain of the last call
CallXMin == MathMin([i \in 1..Len(CallX) |-> ToNumber(CallX[i])])
CallXMax == MathMax([i \in 1..Len(CallX) |-> ToNumber(CallX[i])])

\* C29: on an integer x domain the x tick loop of drawAxes ends, having
\* emitted between 1 and 6 labels; the first label is xMin, each label is
\* the one before plus one and the same step of at least 1, none exceeds
\* xMax, and there is exactly one label when xMin = xMax.
C29_XTickLoopBounded ==
    (call.fn = "renderLineChart" /\ call.xKind = "numeric") =>
        /\ call.outcome = "ok"
        /\ Len(XTickLabels) >= 1 /\ Len(XTickLabels) <= 6
        /\ XTickLabels[1].text.num = CallXMin
        /\ \E step \in 1..(MaxSpan + 1) :
              \A i \in 1..(Len(XTickLabels) - 1) :
                  XTickLabels[i + 1].text.num = XAdd(XTickLabels[i].text.num, Fin(step))
        /\ \A i \in 1..Len(XTickLabels) : XLe(XTickLabels[i].text.num, CallXMax)
        /\ CallXMin = CallXMax => Len(XTickLabels) = 1

====
